---- MODULE Spec2Model ----
(***************************************************************************)
(* The zap evaluation pipeline: reader (tokenize / flush_token /          *)
(* read_ast), compiler (compile) and bytecode VM (run), modelled from the  *)
(* sources under src/zap/src.                                              *)
(*                                                                         *)
(* Sequences are 1-based here and 0-based in the code: At(s, i) is s[i].   *)
(* f64 numbers are modelled by integers.  Arc identity (Arc::ptr_eq) is    *)
(* modelled by a ptr field allocated from a heap counter.                  *)
(***************************************************************************)
EXTENDS Integers, Sequences, FiniteSets, TLC

At(s, i) == s[i + 1]
Last(s) == s[Len(s)]
Front(s) == SubSeq(s, 1, Len(s) - 1)
Take(s, n) == SubSeq(s, 1, n)
Drop(s, n) == SubSeq(s, n + 1, Len(s))
SetAt(s, i, v) == [s EXCEPT ![i + 1] = v]
Max2(a, b) == IF a >= b THEN a ELSE b

(***************************************************************************)
(* Value (zap.rs)                                                          *)
(***************************************************************************)
Nil == [tag |-> "Nil"]
Bool(b) == [tag |-> "Bool", b |-> b]
Number(n) == [tag |-> "Number", n |-> n]
Sym(id) == [tag |-> "Symbol", id |-> id]
Str(s) == [tag |-> "Str", s |-> s]
List(ptr, items) == [tag |-> "List", ptr |-> ptr, items |-> items]
Func(ptr, locals, chunk) == [tag |-> "Func", ptr |-> ptr, locals |-> locals, chunk |-> chunk]
ClosureV(outers, chunk) == [tag |-> "Closure", outers |-> outers, chunk |-> chunk]
FuncNative(name) == [tag |-> "FuncNative", name |-> name]

\* Variant of is_truthy in which the number 0 is falsy as well
is_truthy_zero_falsy(v) == ~(v = Nil \/ v = Bool(FALSE) \/ v = Number(0))

is_truthy(v) == ~(v = Nil \/ v = Bool(FALSE))

\* impl PartialEq for Value: atoms and strings by content, List / FuncNative /
\* Func by Arc identity, everything else (Closure included) unequal.
ValueEq(a, b) ==
  IF a.tag # b.tag THEN FALSE
  ELSE CASE a.tag = "Nil" -> TRUE
         [] a.tag = "Bool" -> a.b = b.b
         [] a.tag = "Number" -> a.n = b.n
         [] a.tag = "Symbol" -> a.id = b.id
         [] a.tag = "Str" -> a.s = b.s
         [] a.tag = "List" -> a.ptr = b.ptr
         [] a.tag = "FuncNative" -> a.name = b.name
         [] a.tag = "Func" -> a.ptr = b.ptr
         [] OTHER -> FALSE

NilVec(n) == [i \in 1..n |-> Nil]

\* ZapFn::new
ZapFn_new(ptr, scope_size, chunk) == Func(ptr, NilVec(scope_size), chunk)

\* ZapFn::new_closure
ZapFn_new_closure(outers, chunk) == ClosureV(outers, chunk)

(***************************************************************************)
(* Op and Chunk (vm.rs)                                                    *)
(***************************************************************************)
Op0(name) == [op |-> name, a |-> 0]
Op1(name, a) == [op |-> name, a |-> a]

Chunk(ops, consts, scope_size) == [ops |-> ops, consts |-> consts, scope_size |-> scope_size]
ChunkDefault == Chunk(<<>>, <<>>, 0)

\* Chunk::get_callframe: pc and consts point into the chunk, kept here by value
get_callframe(chunk, ret) == [ops |-> chunk.ops, consts |-> chunk.consts, pc |-> 0, ret |-> ret]

(***************************************************************************)
(* Env: symbol table and dense global slots (shared_env.rs, env.rs)        *)
(***************************************************************************)
symbols_IF == 0
symbols_LET == 1
symbols_FN == 2
symbols_DO == 3
symbols_DEFINE == 4
symbols_QUOTE == 5
symbols_QUASIQUOTE == 6
symbols_UNQUOTE == 7
symbols_SPLICE_UNQUOTE == 8
symbols_PLUS == 9
symbols_EQUAL == 10

DEFAULT_SYMBOLS ==
  <<"if", "let", "fn", "do", "def", "quote", "quasiquote", "unquote",
    "splice-unquote", "+", "=">>

None == [tag |-> "None"]

\* Env::get_symbol: reverse lookup of an id
get_symbol(env, id) == IF id < Len(env.symbols) THEN At(env.symbols, id) ELSE "?"

\* Env::reg_symbol: idempotent; a new text gets the next id and a None slot
reg_symbol_id(env, text) ==
  IF \E i \in 1..Len(env.symbols) : env.symbols[i] = text
  THEN (CHOOSE i \in 1..Len(env.symbols) : env.symbols[i] = text) - 1
  ELSE Len(env.symbols)

reg_symbol_env(env, text) ==
  IF \E i \in 1..Len(env.symbols) : env.symbols[i] = text
  THEN env
  ELSE [symbols |-> Append(env.symbols, text), globals |-> Append(env.globals, None)]

\* Variant of get_by_id in which an unbound symbol reads as Nil
get_by_id_unbound_as_nil(env, id) ==
  [ok |-> TRUE, val |-> IF At(env.globals, id) # None THEN At(env.globals, id) ELSE Nil, msg |-> ""]

\* Env::get_by_id: Ok(value) or Err("symbol '<name>' not in scope.")
get_by_id(env, id) ==
  IF At(env.globals, id) # None
  THEN [ok |-> TRUE, val |-> At(env.globals, id), msg |-> ""]
  ELSE [ok |-> FALSE, val |-> Nil, msg |-> "symbol '" \o get_symbol(env, id) \o "' not in scope."]

\* Env::set: only a Symbol key is accepted
env_set(env, key, val) ==
  IF key.tag = "Symbol"
  THEN [ok |-> TRUE, env |-> [env EXCEPT !.globals = SetAt(env.globals, key.id, val)], msg |-> ""]
  ELSE [ok |-> FALSE, env |-> env, msg |-> "Env set: only symbols can be used as keys."]

(***************************************************************************)
(* VmState (vm.rs).  A machine m is                                        *)
(*   [callframe, stack, calls, env, heap, st, res, op]                     *)
(* st: "run" while dispatching, "ok" / "err" when run returned, "panic"    *)
(* when a checked access aborted the process, "ub" when an unchecked       *)
(* access left its bounds and the process crashed.                         *)
(***************************************************************************)
\* Variant of Fail in which a failing run also unbinds every global
Fail_clearing_globals(m, msg) ==
  [m EXCEPT !.st = "err", !.res = Str(msg),
            !.env.globals = [i \in 1..Len(m.env.globals) |-> None]]

Fail(m, msg) == [m EXCEPT !.st = "err", !.res = Str(msg)]
Panic(m, what) == [m EXCEPT !.st = "panic", !.res = Str(what)]
Crash(m, what) == [m EXCEPT !.st = "ub", !.res = Str(what)]

\* Outcomes of an out-of-bounds unchecked read: the process crashes, or the
\* read yields what the memory holds, here a Nil or a number.
UBOutcomes == {"crash", "nil", "num"}
Stale(g) == IF g = "num" THEN Number(0) ELSE Nil

(***************************************************************************)
(* SharedEnv (shared_env.rs).  The hub h is what the Arcs point to:        *)
(* [symbols, shared_globals]; symbols is the FxHashMap<String, Symbol>,    *)
(* a function from the interned texts to their ids.  A session's own part  *)
(* is its globals, the Scope it copied when it was cloned.                 *)
(***************************************************************************)
EmptyTable == [t \in {} |-> 0]

\* HashMap::entry(s).or_insert_with(|| len): the table with s at id len
table_insert(symbols, s, id) ==
  [t \in DOMAIN symbols \cup {s} |-> IF t = s /\ s \notin DOMAIN symbols THEN id ELSE symbols[t]]

\* Variant of SharedEnv::reg_symbol in which a text the table knows still
\* pushes a slot
SharedEnv_reg_symbol_always_pushing(h, globals, s) ==
  LET len == Cardinality(DOMAIN h.symbols)
  IN  [h |-> [symbols |-> table_insert(h.symbols, s, len),
              shared_globals |-> Append(h.shared_globals, None)],
       globals |-> Append(globals, None),
       id |-> table_insert(h.symbols, s, len)[s]]

\* SharedEnv::reg_symbol, under the write lock of symbols: a text the table
\* does not know gets id len, and a None slot is pushed on shared_globals and
\* on the caller's own globals; the result is the id of the entry
SharedEnv_reg_symbol(h, globals, s) ==
  LET len == Cardinality(DOMAIN h.symbols)
      fresh == s \notin DOMAIN h.symbols
  IN  [h |-> [symbols |-> table_insert(h.symbols, s, len),
              shared_globals |-> IF fresh THEN Append(h.shared_globals, None) ELSE h.shared_globals],
       globals |-> IF fresh THEN Append(globals, None) ELSE globals,
       id |-> table_insert(h.symbols, s, len)[s]]

\* SharedEnv::default: the reserved symbols are registered one by one
RECURSIVE SharedEnv_reg_all(_, _, _)
SharedEnv_reg_all(h, globals, texts) ==
  IF texts = <<>> THEN [h |-> h, globals |-> globals]
  ELSE LET r == SharedEnv_reg_symbol(h, globals, Head(texts))
       IN  SharedEnv_reg_all(r.h, r.globals, Tail(texts))

SharedEnv_default ==
  SharedEnv_reg_all([symbols |-> EmptyTable, shared_globals |-> <<>>], <<>>, DEFAULT_SYMBOLS)

\* SharedEnv::clone: the new session's globals are a copy of shared_globals
SharedEnv_clone(h) == h.shared_globals

\* SharedEnv::get_symbol: the text whose entry holds id
SharedEnv_get_symbol(h, id) ==
  IF \E t \in DOMAIN h.symbols : h.symbols[t] = id
  THEN [ok |-> TRUE, s |-> CHOOSE t \in DOMAIN h.symbols : h.symbols[t] = id, msg |-> ""]
  ELSE [ok |-> FALSE, s |-> "", msg |-> "No known symbol for id"]

\* Variant of SharedEnv::get_by_id that reads the shared scope
SharedEnv_get_by_id_reading_shared(h, globals, id, g) ==
  IF id >= Len(h.shared_globals)
  THEN IF g = "crash" THEN [r |-> "ub", val |-> Nil, msg |-> "get_unchecked out of bounds"]
       ELSE [r |-> "ok", val |-> Stale(g), msg |-> ""]
  ELSE IF At(h.shared_globals, id) # None
       THEN [r |-> "ok", val |-> At(h.shared_globals, id), msg |-> ""]
       ELSE [r |-> "err", val |-> Nil, msg |-> "symbol not in scope."]

\* SharedEnv::get_by_id: reads the session's own globals with get_unchecked;
\* an id past their end is undefined behaviour (outcome g)
SharedEnv_get_by_id(h, globals, id, g) ==
  IF id >= Len(globals)
  THEN IF g = "crash" THEN [r |-> "ub", val |-> Nil, msg |-> "get_unchecked out of bounds"]
       ELSE [r |-> "ok", val |-> Stale(g), msg |-> ""]
  ELSE IF At(globals, id) # None
       THEN [r |-> "ok", val |-> At(globals, id), msg |-> ""]
       ELSE IF SharedEnv_get_symbol(h, id).ok
            THEN [r |-> "err", val |-> Nil,
                  msg |-> "symbol '" \o SharedEnv_get_symbol(h, id).s \o "' not in scope."]
            ELSE [r |-> "err", val |-> Nil, msg |-> SharedEnv_get_symbol(h, id).msg]

\* SharedEnv::set, first statement: the slot of shared_globals is written
\* under its write lock; the index is checked
SharedEnv_set_shared(h, id, val) ==
  IF id < Len(h.shared_globals)
  THEN [ok |-> TRUE, h |-> [h EXCEPT !.shared_globals = SetAt(h.shared_globals, id, val)]]
  ELSE [ok |-> FALSE, h |-> h]

\* SharedEnv::set, second statement: the slot of the session's own globals is
\* written; the index is checked (a panic when it is out of bounds)
SharedEnv_set_local(globals, id, val) ==
  IF id < Len(globals)
  THEN [ok |-> TRUE, globals |-> SetAt(globals, id, val)]
  ELSE [ok |-> FALSE, globals |-> globals]

\* What a call does to the locks, step by step: pos counts the steps the
\* call has taken.  A step acquires a lock (RwLock::write or read, which
\* waits), releases one (the guard is dropped) or returns.
Acq(lock, mode) == [act |-> "acq", lock |-> lock, mode |-> mode]
Rel(lock) == [act |-> "rel", lock |-> lock, mode |-> ""]
Done == [act |-> "done", lock |-> "", mode |-> ""]

\* SharedEnv::reg_symbol: symbols is held for writing for the whole call;
\* the closure of or_insert_with, which runs when the text is new, takes
\* shared_globals for writing for the one statement that pushes the slot
reg_symbol_locks(pos, known) ==
  CASE pos = 0 -> Acq("symbols", "write")
    [] pos = 1 -> IF known THEN Rel("symbols") ELSE Acq("shared_globals", "write")
    [] pos = 2 -> IF known THEN Done ELSE Rel("shared_globals")
    [] pos = 3 -> Rel("symbols")
    [] OTHER -> Done

\* Variant of set_locks that looks the symbol up while it holds shared_globals
set_locks_taking_symbols(pos) ==
  CASE pos = 0 -> Acq("shared_globals", "write")
    [] pos = 1 -> Acq("symbols", "read")
    [] pos = 2 -> Rel("symbols")
    [] pos = 3 -> Rel("shared_globals")
    [] OTHER -> Done

\* SharedEnv::set: shared_globals is held for writing for the first statement
set_locks(pos) ==
  CASE pos = 0 -> Acq("shared_globals", "write")
    [] pos = 1 -> Rel("shared_globals")
    [] OTHER -> Done

\* SharedEnv::clone: shared_globals is held for reading while it is copied
clone_locks(pos) ==
  CASE pos = 0 -> Acq("shared_globals", "read")
    [] pos = 1 -> Rel("shared_globals")
    [] OTHER -> Done

\* SharedEnv::get_symbol: symbols is held for reading for the whole call
get_symbol_locks(pos) ==
  CASE pos = 0 -> Acq("symbols", "read")
    [] pos = 1 -> Rel("symbols")
    [] OTHER -> Done

\* SharedEnv::get_by_id: no lock for a bound symbol, get_symbol for the
\* message of an unbound one
get_by_id_locks(pos, bound) == IF bound THEN Done ELSE get_symbol_locks(pos)

\* RwLock: write waits for every holder, read for a writer
rw_available(l, mode) == IF mode = "write" THEN l.w = 0 /\ l.r = {} ELSE l.w = 0

rw_acquire(l, mode, b) == IF mode = "write" THEN [l EXCEPT !.w = b] ELSE [l EXCEPT !.r = @ \cup {b}]

\* the guard of b is dropped
rw_release(l, b) == [w |-> IF l.w = b THEN 0 ELSE l.w, r |-> l.r \ {b}]

\* VmState::new followed by run's resize_with(scope_size, Default::default)
VmState_new(chunk) ==
  [callframe |-> get_callframe(chunk, 0), stack |-> NilVec(chunk.scope_size), calls |-> <<>>]

\* Variant of pop_call that cuts the stack without moving the top value
pop_call_leaving_result(m) ==
  LET ret == m.callframe.ret
  IN [m EXCEPT !.stack = Take(m.stack, ret + 1),
               !.callframe = Last(m.calls),
               !.calls = Front(m.calls)]

\* VmState::pop_call: FALSE when there is no saved frame
pop_call(m) ==
  LET ret == m.callframe.ret
      len == Len(m.stack)
  IN IF len = 0 \/ ret >= len THEN Panic(m, "pop_call: index out of range")
     ELSE [m EXCEPT !.stack = Append(Take(m.stack, ret), Last(m.stack)),
                    !.callframe = Last(m.calls),
                    !.calls = Front(m.calls)]

\* Op::Return in run
op_return(m) ==
  IF Len(m.calls) > 0 THEN pop_call(m)
  ELSE IF Len(m.stack) = 0 THEN Panic(m, "pop: unwrap on None")
  ELSE [m EXCEPT !.st = "ok", !.res = Last(m.stack), !.stack = Front(m.stack)]

\* zap-core's add: 0 for no argument, the argument when there is one, the
\* sum from the left otherwise, Err at the first operand that is no number
RECURSIVE native_add_from(_, _, _)
native_add_from(acc, args, i) ==
  IF i > Len(args) THEN [ok |-> TRUE, val |-> acc, msg |-> ""]
  ELSE IF acc.tag = "Number" /\ args[i].tag = "Number"
  THEN native_add_from([tag |-> "Number", n |-> acc.n + args[i].n], args, i + 1)
  ELSE [ok |-> FALSE, val |-> Nil, msg |-> "Can't add"]

native_add(args) ==
  CASE Len(args) = 0 -> [ok |-> TRUE, val |-> Number(0), msg |-> ""]
    [] Len(args) = 1 -> [ok |-> TRUE, val |-> args[1], msg |-> ""]
    [] OTHER -> native_add_from(args[1], args, 2)

\* zap-core's concat: the strings joined in order, Err for no argument and
\* for an argument that is no string
RECURSIVE native_concat_from(_, _, _)
native_concat_from(acc, args, i) ==
  IF i > Len(args) THEN [ok |-> TRUE, val |-> Str(acc), msg |-> ""]
  ELSE native_concat_from(acc \o args[i].s, args, i + 1)

native_concat(args) ==
  IF args = <<>>
  THEN [ok |-> FALSE, val |-> Nil, msg |-> "'concat' requires at least 1 argument."]
  ELSE IF \E i \in 1..Len(args) : args[i].tag # "Str"
  THEN [ok |-> FALSE, val |-> Nil, msg |-> "'concat' can only concatenate strings."]
  ELSE native_concat_from("", args, 1)

\* (f.func)(args) of a FuncNative: the native functions an embedding program
\* registers are those of zap-core (none is registered by the environment's
\* default)
NativeApply(name, args) ==
  CASE name = "+" -> native_add(args)
    [] name = "concat" -> native_concat(args)
    [] OTHER -> [ok |-> FALSE, val |-> Nil, msg |-> "unknown native"]

\* Variant of call that leaves the result of a native above the callee's slot
call_native_result_above(m, argc, g) ==
  LET len == Len(m.stack)
      ret == len - argc
  IN IF argc > len \/ ret >= len
     THEN IF g = "crash" THEN Crash(m, "call: callee slot out of bounds")
          ELSE Fail(m, "Cannot call a non-function")
     ELSE LET head == At(m.stack, ret)
              stack1 == SetAt(m.stack, ret, Nil)
          IN CASE head.tag = "Func" ->
                    IF argc - 1 > Len(head.locals)
                    THEN Panic(m, "call: locals slice out of range")
                    ELSE [m EXCEPT !.calls = Append(m.calls, m.callframe),
                                   !.callframe = get_callframe(head.chunk, ret),
                                   !.stack = stack1 \o Drop(head.locals, argc - 1)]
               [] head.tag = "FuncNative" ->
                    LET out == NativeApply(head.name, Drop(stack1, ret + 1))
                    IN IF ~out.ok THEN Fail(m, out.msg)
                       ELSE [m EXCEPT !.stack = Append(Take(stack1, ret + 1), out.val)]
               [] OTHER -> Fail(m, "Cannot call a non-function")

\* VmState::call
call(m, argc, g) ==
  LET len == Len(m.stack)
      ret == len - argc
  IN IF argc > len \/ ret >= len
     THEN \* get_unchecked_mut(ret) outside the stack: a crash, or a stale
          \* value that is no function
          IF g = "crash" THEN Crash(m, "call: callee slot out of bounds")
          ELSE Fail(m, "Cannot call a non-function")
     ELSE LET head == At(m.stack, ret)
              stack1 == SetAt(m.stack, ret, Nil)
          IN CASE head.tag = "Func" ->
                    IF argc - 1 > Len(head.locals)
                    THEN Panic(m, "call: locals slice out of range")
                    ELSE [m EXCEPT !.calls = Append(m.calls, m.callframe),
                                   !.callframe = get_callframe(head.chunk, ret),
                                   !.stack = stack1 \o Drop(head.locals, argc - 1)]
               [] head.tag = "FuncNative" ->
                    LET out == NativeApply(head.name, Drop(stack1, ret + 1))
                    IN IF ~out.ok THEN Fail(m, out.msg)
                       ELSE [m EXCEPT !.stack = Append(Take(stack1, ret), out.val)]
               [] OTHER -> Fail(m, "Cannot call a non-function")

\* The ptr::swap_nonoverlapping of tailcall: count slots starting at
\* stack[ret] are exchanged with the count slots starting at
\* stack[ret + args_base + 1].  Slots past the end of the stack read as Stale.
SwapArgs(stack, ret, args_base, count, g) ==
  [i \in 1..Len(stack) |->
     LET k == i - 1 IN
     IF k >= ret /\ k < ret + count
     THEN (IF k + args_base + 1 < Len(stack) THEN At(stack, k + args_base + 1) ELSE Stale(g))
     ELSE IF k >= ret + args_base + 1 /\ k < ret + args_base + 1 + count
     THEN At(stack, k - args_base - 1)
     ELSE stack[i]]

\* Variant of tailcall_func that saves the current frame as call does
tailcall_func_saving_frame(m, func, stack1, argc, g) ==
  LET ret == m.callframe.ret
      count == argc - 1
  IN IF count > Len(func.locals)
     THEN Panic(m, "tailcall: locals slice out of range")
     ELSE [m EXCEPT !.calls = Append(m.calls, m.callframe),
                    !.callframe = get_callframe(func.chunk, ret),
                    !.stack = Take(SwapArgs(stack1, ret, Len(stack1) - argc, count, g), ret + count)
                              \o Drop(func.locals, count)]

\* Variant of tailcall_func in which the activation keeps what the frame's
\* slots hold instead of taking the copies the Func captured
tailcall_func_sharing_slots(m, func, stack1, argc, g) ==
  LET ret == m.callframe.ret
      count == argc - 1
      moved == Take(SwapArgs(stack1, ret, Len(stack1) - argc, count, g), Len(stack1) - 1)
      size == ret + Len(func.locals)
  IN IF count > Len(func.locals)
     THEN Panic(m, "tailcall: locals slice out of range")
     ELSE [m EXCEPT !.callframe = get_callframe(func.chunk, ret),
                    !.stack = IF size <= Len(moved) THEN Take(moved, size)
                              ELSE moved \o [i \in 1..(size - Len(moved)) |-> Nil]]

\* tailcall on a Func: the callee's frame takes the place of the current one
\* (the same ret, no frame saved), the arguments are moved to the frame's
\* base, the stack is cut after them and the rest of the locals is appended
tailcall_func(m, func, stack1, argc, g) ==
  LET len == Len(stack1)
      args_base == len - argc
      ret == m.callframe.ret
      count == argc - 1
  IN IF count > 0 /\ (ret + args_base + 1 + count > len \/ args_base + 1 < count)
        /\ g = "crash"
     THEN Crash(m, "tailcall: swap outside the stack")
     ELSE IF count > Len(func.locals)
     THEN Panic(m, "tailcall: locals slice out of range")
     ELSE [m EXCEPT !.callframe = get_callframe(func.chunk, ret),
                    !.stack = Take(SwapArgs(stack1, ret, args_base, count, g), ret + count)
                              \o Drop(func.locals, count)]

\* VmState::tailcall
tailcall(m, argc, g) ==
  LET len == Len(m.stack)
      args_base == len - argc
  IN IF argc > len \/ args_base >= len
     THEN IF g = "crash" THEN Crash(m, "tailcall: callee slot out of bounds")
          ELSE Fail(m, "Cannot call a non-function")
     ELSE LET head == At(m.stack, args_base)
              stack1 == SetAt(m.stack, args_base, Nil)
          IN CASE head.tag = "Func" -> tailcall_func(m, head, stack1, argc, g)
               [] head.tag = "FuncNative" ->
                    LET out == NativeApply(head.name, Drop(stack1, args_base + 1))
                    IN IF ~out.ok THEN Fail(m, out.msg)
                       ELSE [m EXCEPT !.stack = Append(Take(stack1, m.callframe.ret), out.val)]
               [] OTHER -> Fail(m, "Cannot call a non-function")

\* VmState::push_const (get_const is an unchecked read of the constants)
push_const(m, idx, g) ==
  IF idx >= Len(m.callframe.consts)
  THEN IF g = "crash" THEN Crash(m, "get_const out of bounds")
       ELSE [m EXCEPT !.stack = Append(m.stack, Stale(g))]
  ELSE [m EXCEPT !.stack = Append(m.stack, At(m.callframe.consts, idx))]

\* VmState::pop_void
pop_void(m) ==
  IF Len(m.stack) = 0 THEN Panic(m, "pop_void: subtract with overflow")
  ELSE [m EXCEPT !.stack = Front(m.stack)]

\* VmState::jump
jump(m, n) == [m EXCEPT !.callframe.pc = m.callframe.pc + n]

\* VmState::cond_jump
cond_jump(m, n) ==
  IF Len(m.stack) = 0 THEN Panic(m, "pop: unwrap on None")
  ELSE LET m1 == [m EXCEPT !.stack = Front(m.stack)]
       IN IF ~is_truthy(Last(m.stack)) THEN jump(m1, n) ELSE m1

\* VmState::lookup
lookup(m, id) ==
  LET r == get_by_id(m.env, id)
  IN IF r.ok THEN [m EXCEPT !.stack = Append(m.stack, r.val)] ELSE Fail(m, r.msg)

\* Variant of define that removes the value and leaves the symbol on top
define_yielding_symbol(m) ==
  LET len == Len(m.stack)
  IN IF len < 2 THEN Panic(m, "define: swap_remove index out of range")
     ELSE LET key == m.stack[len - 1]
              val == m.stack[len]
              r == env_set(m.env, key, val)
              m1 == [m EXCEPT !.stack = Front(m.stack)]
          IN IF r.ok THEN [m1 EXCEPT !.env = r.env] ELSE Fail(m1, r.msg)

\* VmState::define: swap_remove(len - 2) takes the symbol out and leaves the
\* value on top, then env.set(symbol, value)
define(m) ==
  LET len == Len(m.stack)
  IN IF len < 2 THEN Panic(m, "define: swap_remove index out of range")
     ELSE LET key == m.stack[len - 1]
              val == m.stack[len]
              r == env_set(m.env, key, val)
              m1 == [m EXCEPT !.stack = Append(Take(m.stack, len - 2), val)]
          IN IF r.ok THEN [m1 EXCEPT !.env = r.env] ELSE Fail(m1, r.msg)

\* VmState::load
load(m, idx, g) ==
  LET i == m.callframe.ret + idx
  IN IF i >= Len(m.stack)
     THEN IF g = "crash" THEN Crash(m, "load out of bounds")
          ELSE [m EXCEPT !.stack = Append(m.stack, Stale(g))]
     ELSE [m EXCEPT !.stack = Append(m.stack, At(m.stack, i))]

\* VmState::store
store(m, idx, g) ==
  LET i == m.callframe.ret + idx
  IN IF Len(m.stack) = 0 THEN Panic(m, "pop: unwrap on None")
     ELSE IF i >= Len(m.stack) - 1
     THEN IF g = "crash" THEN Crash(m, "store out of bounds")
          ELSE [m EXCEPT !.stack = Front(m.stack)]
     ELSE [m EXCEPT !.stack = SetAt(Front(m.stack), i, Last(m.stack))]

\* Variant of Add for &Value in which Nil counts as the number 0
value_add_nil_as_zero(a, b) ==
  LET num(v) == IF v = Nil THEN Number(0) ELSE v
  IN IF num(a).tag = "Number" /\ num(b).tag = "Number"
     THEN [ok |-> TRUE, val |-> Number(num(a).n + num(b).n), msg |-> ""]
     ELSE [ok |-> FALSE, val |-> Nil, msg |-> "Can't add"]

\* impl Add for &Value
value_add(a, b) ==
  IF a.tag = "Number" /\ b.tag = "Number"
  THEN [ok |-> TRUE, val |-> Number(a.n + b.n), msg |-> ""]
  ELSE [ok |-> FALSE, val |-> Nil, msg |-> "Can't add"]

\* VmState::add_const
add_const(m, idx, g) ==
  IF Len(m.stack) = 0 \/ idx >= Len(m.callframe.consts)
  THEN Crash(m, "add_const out of bounds")
  ELSE LET r == value_add(Last(m.stack), At(m.callframe.consts, idx))
       IN IF r.ok THEN [m EXCEPT !.stack = Append(Front(m.stack), r.val)]
          ELSE Fail(m, r.msg)

\* VmState::add
add(m, g) ==
  IF Len(m.stack) < 2
  THEN Crash(m, "add out of bounds")
  ELSE LET a == Last(m.stack)
           b == m.stack[Len(m.stack) - 1]
           r == value_add(a, b)
       IN IF r.ok THEN [m EXCEPT !.stack = Append(Take(m.stack, Len(m.stack) - 2), r.val)]
          ELSE Fail(m, r.msg)

\* VmState::eq_const
eq_const(m, idx, g) ==
  IF Len(m.stack) = 0 \/ idx >= Len(m.callframe.consts)
  THEN Crash(m, "eq_const out of bounds")
  ELSE [m EXCEPT !.stack =
          Append(Front(m.stack), Bool(ValueEq(Last(m.stack), At(m.callframe.consts, idx))))]

\* VmState::eq
eq(m, g) ==
  IF Len(m.stack) < 2
  THEN Crash(m, "eq out of bounds")
  ELSE [m EXCEPT !.stack =
          Append(Take(m.stack, Len(m.stack) - 2),
                 Bool(ValueEq(Last(m.stack), m.stack[Len(m.stack) - 1])))]

\* ZapFn::from_closure: base is 0 for level 0 and the ret of the saved frame
\* calls[level - 1] otherwise; both reads are unchecked.
OuterBase(outer, calls) ==
  IF outer.level = 0 THEN 0
  ELSE IF outer.level - 1 < Len(calls) THEN At(calls, outer.level - 1).ret
  ELSE -1

OuterInBounds(outer, calls, stack) ==
  /\ OuterBase(outer, calls) >= 0
  /\ OuterBase(outer, calls) + outer.position < Len(stack)

RECURSIVE CaptureOuters(_, _, _, _, _)
CaptureOuters(locals, outers, calls, stack, g) ==
  IF outers = <<>> THEN locals
  ELSE LET outer == Head(outers)
           val == IF OuterInBounds(outer, calls, stack)
                  THEN At(stack, OuterBase(outer, calls) + outer.position)
                  ELSE Stale(g)
       IN CaptureOuters(SetAt(locals, outer.dest, val), Tail(outers), calls, stack, g)

from_closure(ptr, clo, calls, stack, g) ==
  Func(ptr, CaptureOuters(NilVec(clo.chunk.scope_size), clo.outers, calls, stack, g), clo.chunk)

\* VmState::closure
closure(m, g) ==
  IF Len(m.stack) = 0 THEN Panic(m, "last_mut: unwrap on None")
  ELSE LET top == Last(m.stack)
           stack1 == Append(Front(m.stack), Nil)
       IN IF top.tag = "Closure"
          THEN IF (\E i \in 1..Len(top.outers) : ~OuterInBounds(top.outers[i], m.calls, stack1))
                  /\ g = "crash"
               THEN Crash(m, "from_closure out of bounds")
               ELSE [m EXCEPT !.stack = Append(Front(m.stack),
                                               from_closure(m.heap, top, m.calls, stack1, g)),
                              !.heap = m.heap + 1]
          ELSE Fail([m EXCEPT !.stack = stack1], "A Closure was expected at the top of the stack.")

\* One iteration of the loop of run: get_next_op then the match on the op
Dispatch(m, g) ==
  IF m.callframe.pc >= Len(m.callframe.ops)
  THEN Crash(m, "pc past the end of ops")
  ELSE LET op == At(m.callframe.ops, m.callframe.pc)
           m1 == [m EXCEPT !.callframe.pc = m.callframe.pc + 1, !.op = op]
       IN CASE op.op = "Push" -> push_const(m1, op.a, g)
            [] op.op = "Call" -> call(m1, op.a, g)
            [] op.op = "Tailcall" -> tailcall(m1, op.a, g)
            [] op.op = "CondJmp" -> cond_jump(m1, op.a)
            [] op.op = "Jmp" -> jump(m1, op.a)
            [] op.op = "LookUp" -> lookup(m1, op.a)
            [] op.op = "Define" -> define(m1)
            [] op.op = "Pop" -> pop_void(m1)
            [] op.op = "Load" -> load(m1, op.a, g)
            [] op.op = "Store" -> store(m1, op.a, g)
            [] op.op = "AddConst" -> add_const(m1, op.a, g)
            [] op.op = "Add" -> add(m1, g)
            [] op.op = "EqConst" -> eq_const(m1, op.a, g)
            [] op.op = "Eq" -> eq(m1, g)
            [] op.op = "Closure" -> closure(m1, g)
            [] op.op = "Return" -> op_return(m1)

(***************************************************************************)
(* Compiler (compiler.rs).  A compiler state c is                          *)
(*   [chunk, forms, scopes, outers, argc, quoting, heap, st, msg]          *)
(* scopes is Scoping.scopes (a sequence of [max, locals]), outers is       *)
(* Scoping.outers.  st is "run", "err" (compile returned Err(msg)) or      *)
(* "panic" (an index or unwrap aborted the process).                       *)
(***************************************************************************)
U8_MAX == 255
U16_MAX == 65535

FValue(v) == [f |-> "Value", v |-> v]
FList(l, idx) == [f |-> "List", l |-> l, idx |-> idx]
FApply == [f |-> "Apply"]
FIfCond(l) == [f |-> "IfCond", l |-> l]
FIfThen(l, ops) == [f |-> "IfThen", l |-> l, ops |-> ops]
FIfElse(ops, then_ops) == [f |-> "IfElse", ops |-> ops, then_ops |-> then_ops]
FDo(l, idx) == [f |-> "Do", l |-> l, idx |-> idx]
FDefine == [f |-> "Define"]
FReturn(chunk) == [f |-> "Return", chunk |-> chunk]
FAddMany(l, idx) == [f |-> "AddMany", l |-> l, idx |-> idx]
FAdd == [f |-> "Add"]
FEqual == [f |-> "Equal"]
FEqualConst(k) == [f |-> "EqualConst", k |-> k]
FLet(n) == [f |-> "Let", n |-> n]
FBinding(s) == [f |-> "Binding", s |-> s]
FQuoting == [f |-> "Quoting"]

Outer(level, position, dest) == [level |-> level, position |-> position, dest |-> dest]

CErr(c, msg) == [c EXCEPT !.st = "err", !.msg = msg]
CPanic(c, msg) == [c EXCEPT !.st = "panic", !.msg = msg]
PushForm(c, form) == [c EXCEPT !.forms = Append(c.forms, form)]

\* fn is_const
is_const(val) == ~(val.tag = "List" \/ val.tag = "Symbol")

\* Compiler::init
Compiler_init(ast, heap) ==
  [chunk |-> ChunkDefault, forms |-> <<FValue(ast)>>,
   scopes |-> <<[max |-> 0, locals |-> <<>>]>>, outers |-> <<<<>>>>,
   argc |-> 0, quoting |-> FALSE, heap |-> heap, st |-> "run", msg |-> ""]

\* Variant of is_last_exp that looks past the Return of the enclosing fn
RECURSIVE is_last_exp_past_return(_, _)
is_last_exp_past_return(forms, i) ==
  IF i = 0 THEN TRUE
  ELSE forms[i].f \in {"IfThen", "IfElse", "Let", "Return"} /\ is_last_exp_past_return(forms, i - 1)

\* Compiler::is_last_exp
RECURSIVE is_last_exp_from(_, _)
is_last_exp_from(forms, i) ==
  IF i = 0 THEN TRUE
  ELSE IF forms[i].f \in {"IfThen", "IfElse", "Let"} THEN is_last_exp_from(forms, i - 1)
  ELSE forms[i].f = "Return"

is_last_exp(c) == is_last_exp_from(c.forms, Len(c.forms))

\* Compiler::emit
emit(c, op) == [c EXCEPT !.chunk.ops = Append(c.chunk.ops, op)]

\* Scoping::push_local: the new local's index is c.scopes' last locals length - 1
\* Variant of push_local that leaves max as it was
push_local_keeping_max(c, symbol) ==
  LET top == Last(c.scopes)
      locals == Append(top.locals, symbol)
  IN IF Len(locals) > U8_MAX THEN CErr(c, "Too many locals in scope!")
     ELSE [c EXCEPT !.scopes = Append(Front(c.scopes), [top EXCEPT !.locals = locals])]

push_local(c, symbol) ==
  LET top == Last(c.scopes)
      locals == Append(top.locals, symbol)
      len == Len(locals)
  IN IF len > U8_MAX THEN CErr(c, "Too many locals in scope!")
     ELSE [c EXCEPT !.scopes = Append(Front(c.scopes),
                                       [max |-> Max2(top.max, len), locals |-> locals])]

\* Scoping::pop_locals
pop_locals(c, count) ==
  LET top == Last(c.scopes)
  IN IF count > Len(top.locals) THEN CPanic(c, "pop_locals: subtract with overflow")
     ELSE [c EXCEPT !.scopes = Append(Front(c.scopes),
                                       [top EXCEPT !.locals = Take(top.locals, Len(top.locals) - count)])]

\* Scoping::get_local: offset of the last occurrence in the current scope, or -1
LastPos(locals, s) ==
  IF \E i \in 1..Len(locals) : locals[i] = s
  THEN (CHOOSE i \in 1..Len(locals) : locals[i] = s /\ \A j \in (i + 1)..Len(locals) : locals[j] # s) - 1
  ELSE -1

get_local(c, s) == LastPos(Last(c.scopes).locals, s)

\* Scoping::get_outer: innermost scope (highest level) that holds the symbol
get_outer_level(c, s) ==
  IF \E l \in 1..Len(c.scopes) : LastPos(c.scopes[l].locals, s) >= 0
  THEN (CHOOSE l \in 1..Len(c.scopes) :
          /\ LastPos(c.scopes[l].locals, s) >= 0
          /\ \A k \in (l + 1)..Len(c.scopes) : LastPos(c.scopes[k].locals, s) < 0) - 1
  ELSE -1

get_outer_position(c, s) == LastPos(At(c.scopes, get_outer_level(c, s)).locals, s)

\* Scoping::push_outer
push_outer(c, level, position, dest) ==
  [c EXCEPT !.outers = Append(Front(c.outers), Append(Last(c.outers), Outer(level, position, dest)))]

\* Scoping::push
scopes_push(c) ==
  [c EXCEPT !.scopes = Append(c.scopes, [max |-> 0, locals |-> <<>>]),
            !.outers = Append(c.outers, <<>>)]

\* Compiler::get_const_idx: index of an equal constant, or append
\* Variant of the position search of get_const_idx that never finds the value
ConstPos_never_found(consts, val) == -1

ConstPos(consts, val) ==
  IF \E i \in 1..Len(consts) : ValueEq(consts[i], val)
  THEN (CHOOSE i \in 1..Len(consts) :
          ValueEq(consts[i], val) /\ \A j \in 1..(i - 1) : ~ValueEq(consts[j], val)) - 1
  ELSE -1

get_const_idx(c, val) ==
  IF ConstPos(c.chunk.consts, val) >= 0 THEN ConstPos(c.chunk.consts, val)
  ELSE Len(c.chunk.consts)

add_const_entry(c, val) ==
  LET c1 == IF ConstPos(c.chunk.consts, val) >= 0 THEN c
            ELSE [c EXCEPT !.chunk.consts = Append(c.chunk.consts, val)]
  IN IF get_const_idx(c, val) > U16_MAX
     THEN CErr(c1, "Too many constants in the constants table")
     ELSE c1

\* Compiler::push
compiler_push(c, val) ==
  LET c1 == add_const_entry(c, val)
  IN IF c1.st # "run" THEN c1 ELSE emit(c1, Op1("Push", get_const_idx(c, val)))

\* Compiler::eval_const
eval_const(c, val) == compiler_push(c, val)

\* Variant of register_binding in which every binding is stored in slot 0
register_binding_in_slot_zero(c, symbol) ==
  LET c1 == push_local(c, symbol)
  IN IF c1.st # "run" THEN c1 ELSE emit(c1, Op1("Store", 0))

\* Compiler::register_binding
register_binding(c, symbol) ==
  LET c1 == push_local(c, symbol)
  IN IF c1.st # "run" THEN c1
     ELSE emit(c1, Op1("Store", Len(Last(c1.scopes).locals) - 1))

\* Compiler::set_argc
set_argc(c, argc) == [c EXCEPT !.argc = argc - 1]

\* Compiler::eval_symbol
eval_symbol(c, s) ==
  IF get_local(c, s) >= 0 THEN emit(c, Op1("Load", get_local(c, s)))
  ELSE IF get_outer_level(c, s) >= 0
  THEN LET c1 == push_local(c, s)
           dest == Len(Last(c1.scopes).locals) - 1
       IN IF c1.st # "run" THEN c1
          ELSE emit(push_outer(c1, get_outer_level(c, s), get_outer_position(c, s), dest),
                    Op1("Load", dest))
  ELSE emit(c, Op1("LookUp", s))

\* eval_list, fn: the loop that declares the parameters as locals
RECURSIVE declare_args(_, _, _)
declare_args(c, args, i) ==
  IF i > Len(args) \/ c.st # "run" THEN c
  ELSE IF args[i].tag = "Symbol" THEN declare_args(push_local(c, args[i].id), args, i + 1)
  ELSE CErr(c, "Only symbols can be used as args in fn.")

eval_list_do(c, list) ==
  IF Len(list.items) < 2 THEN CErr(c, "A do form must contains at least 1 parameter")
  ELSE PushForm(c, FDo(list, 1))

eval_list_fn(c, list) ==
  IF Len(list.items) # 3 THEN CErr(c, "A fn form must contains 2 parameters")
  ELSE LET c1 == scopes_push(c)
           args == At(list.items, 1)
       IN IF args.tag = "List"
          THEN LET c2 == [PushForm(c1, FReturn(c1.chunk)) EXCEPT !.chunk = ChunkDefault]
                   c3 == declare_args(c2, args.items, 1)
               IN IF c3.st # "run" THEN c3 ELSE PushForm(c3, FValue(At(list.items, 2)))
          ELSE CErr(c1, "fn's first parameter must be a list")

eval_list_def(c, list) ==
  IF Len(list.items) < 2 THEN CErr(c, "A def form must have 2 parameters")
  ELSE LET c1 == compiler_push(c, At(list.items, 1))
       IN IF c1.st # "run" THEN c1
          ELSE IF Len(list.items) < 3 THEN CPanic(c1, "list[2]: index out of bounds")
          ELSE PushForm(PushForm(c1, FDefine), FValue(At(list.items, 2)))

eval_list_if(c, list) ==
  IF Len(list.items) # 4 THEN CErr(c, "An if form must have 3 parameters")
  ELSE PushForm(PushForm(c, FIfCond(list)), FValue(At(list.items, 1)))

\* eval_list, let: bindings.rchunks(2) walks the pairs from the last to the first
RECURSIVE push_bindings(_, _, _)
push_bindings(c, bindings, k) ==
  IF k = 0 \/ c.st # "run" THEN c
  ELSE LET key == bindings[2 * k - 1]
           val == bindings[2 * k]
       IN IF key.tag = "Symbol"
          THEN push_bindings(PushForm(PushForm(c, FBinding(key.id)), FValue(val)), bindings, k - 1)
          ELSE CErr(c, "A binding must consist of a symbol and an expression")

eval_list_let(c, list) ==
  IF Len(list.items) # 3 THEN CErr(c, "A let form must have 2 parameters")
  ELSE LET bindings == At(list.items, 1)
       IN IF bindings.tag = "List"
          THEN IF Len(bindings.items) % 2 = 1
               THEN CErr(c, "Bindings must have an even number of bindings")
               ELSE push_bindings(
                      PushForm(PushForm(c, FLet(Len(bindings.items) \div 2)), FValue(At(list.items, 2))),
                      bindings.items, Len(bindings.items) \div 2)
          ELSE CErr(c, "A let form must have a list of bindings")

eval_list_equal(c, list) ==
  IF Len(list.items) # 3 THEN CErr(c, "A = form must have 2 parameters")
  ELSE LET a == At(list.items, 1)
           b == At(list.items, 2)
       IN IF is_const(a) = is_const(b)
          THEN compiler_push(c, Bool(ValueEq(a, b)))
          ELSE IF is_const(a)
          THEN LET c1 == add_const_entry(c, a)
               IN IF c1.st # "run" THEN c1
                  ELSE PushForm(PushForm(c1, FEqualConst(get_const_idx(c, a))), FValue(b))
          ELSE IF is_const(b)
          THEN LET c1 == add_const_entry(c, b)
               IN IF c1.st # "run" THEN c1
                  ELSE PushForm(PushForm(c1, FEqualConst(get_const_idx(c, b))), FValue(a))
          ELSE PushForm(PushForm(PushForm(c, FEqual), FValue(a)), FValue(b))

eval_list_plus(c, list) ==
  CASE Len(list.items) = 1 ->
         LET c1 == add_const_entry(c, Number(0))
         IN IF c1.st # "run" THEN c1 ELSE emit(c1, Op1("Push", get_const_idx(c, Number(0))))
    [] Len(list.items) = 2 -> PushForm(c, FValue(At(list.items, 1)))
    [] OTHER -> PushForm(c, FAddMany(list, 1))

eval_list_quote(c, list) ==
  IF Len(list.items) # 2 THEN CErr(c, "'quote' require only 1 value")
  ELSE compiler_push(c, At(list.items, 1))

eval_list_quasiquote(c, list) ==
  IF Len(list.items) # 2 THEN CErr(c, "'quasiquote' require only 1 value")
  ELSE PushForm(PushForm([c EXCEPT !.quoting = TRUE], FQuoting), FValue(At(list.items, 1)))

eval_list_apply(c, list) == PushForm(PushForm(c, FApply), FList(list, 0))

\* Compiler::eval_list
eval_list(c, list) ==
  LET head == At(list.items, 0)
      IsSym(id) == head.tag = "Symbol" /\ head.id = id
  IN IF Len(list.items) > U8_MAX
     THEN CErr(c, "A function cannot have more than 254 parameters.")
     ELSE IF c.quoting
     THEN PushForm(PushForm(c, FList(list, 0)), FValue(head))
     ELSE CASE IsSym(symbols_DO) -> eval_list_do(c, list)
            [] IsSym(symbols_FN) -> eval_list_fn(c, list)
            [] IsSym(symbols_DEFINE) -> eval_list_def(c, list)
            [] IsSym(symbols_IF) -> eval_list_if(c, list)
            [] IsSym(symbols_LET) -> eval_list_let(c, list)
            [] IsSym(symbols_EQUAL) -> eval_list_equal(c, list)
            [] IsSym(symbols_PLUS) -> eval_list_plus(c, list)
            [] IsSym(symbols_QUOTE) -> eval_list_quote(c, list)
            [] IsSym(symbols_QUASIQUOTE) -> eval_list_quasiquote(c, list)
            [] OTHER -> eval_list_apply(c, list)

\* Compiler::eval_next_in_list
eval_next_in_list(c, list, idx) ==
  PushForm(PushForm(c, FList(list, idx + 1)), FValue(At(list.items, idx)))

\* Variant of eval_next_in_do that emits no Pop between the expressions
eval_next_in_do_keeping_values(c, list, idx) ==
  LET c1 == IF Len(list.items) - 1 > idx THEN PushForm(c, FDo(list, idx + 1)) ELSE c
  IN PushForm(c1, FValue(At(list.items, idx)))

\* Compiler::eval_next_in_do
eval_next_in_do(c, list, idx) ==
  LET c1 == IF Len(list.items) - 1 > idx THEN PushForm(c, FDo(list, idx + 1)) ELSE c
      c2 == IF idx > 1 THEN emit(c1, Op0("Pop")) ELSE c1
  IN PushForm(c2, FValue(At(list.items, idx)))

\* Compiler::apply
apply(c) ==
  IF is_last_exp(c) THEN emit(c, Op1("Tailcall", c.argc)) ELSE emit(c, Op1("Call", c.argc))

\* Compiler::eval_then_branch
eval_then_branch(c, args) ==
  PushForm(PushForm([c EXCEPT !.chunk.ops = <<>>], FIfThen(args, c.chunk.ops)),
           FValue(At(args.items, 2)))

\* Compiler::eval_else_branch
eval_else_branch(c, args, chunk_ops) ==
  PushForm(PushForm([c EXCEPT !.chunk.ops = <<>>], FIfElse(chunk_ops, c.chunk.ops)),
           FValue(At(args.items, 3)))

\* Compiler::combine_branches
\* Variant of combine_branches whose CondJmp skips the then-branch only
combine_branches_short_jump(c, chunk_ops, then_branch) ==
  LET else_branch == c.chunk.ops
      then_jump == Len(then_branch)
      else_jump == Len(else_branch)
      c1 == [c EXCEPT !.chunk.ops = Append(chunk_ops, Op1("CondJmp", then_jump)) \o then_branch]
  IN [c1 EXCEPT !.chunk.ops =
        Append(c1.chunk.ops, IF is_last_exp(c) THEN Op0("Return") ELSE Op1("Jmp", else_jump))
        \o else_branch]

combine_branches(c, chunk_ops, then_branch) ==
  LET else_branch == c.chunk.ops
      then_jump == Len(then_branch) + 1
      else_jump == Len(else_branch)
      c1 == [c EXCEPT !.chunk.ops = Append(chunk_ops, Op1("CondJmp", then_jump)) \o then_branch]
  IN IF then_jump > U16_MAX THEN CErr([c EXCEPT !.chunk.ops = chunk_ops], "Then branch jump is too big.")
     ELSE IF else_jump > U16_MAX THEN CErr(c1, "Else branch jump is too big.")
     ELSE [c1 EXCEPT !.chunk.ops =
             Append(c1.chunk.ops, IF is_last_exp(c) THEN Op0("Return") ELSE Op1("Jmp", else_jump))
             \o else_branch]

\* Compiler::eval_next_in_add
eval_next_in_add(c, list, idx) ==
  IF idx = 1
  THEN PushForm(PushForm(c, FAddMany(list, idx + 1)), FValue(At(list.items, idx)))
  ELSE IF Len(list.items) > idx
  THEN LET c1 == PushForm(c, FAddMany(list, idx + 1))
           item == At(list.items, idx)
       IN IF is_const(item)
          THEN LET c2 == add_const_entry(c1, item)
               IN IF c2.st # "run" THEN c2 ELSE emit(c2, Op1("AddConst", get_const_idx(c1, item)))
          ELSE PushForm(PushForm(c1, FAdd), FValue(item))
  ELSE c

\* Compiler::wrap_fn
wrap_fn(c, parent) ==
  LET c1 == emit(c, Op0("Return"))
      size == Last(c1.scopes).max
      outers == Last(c1.outers)
      fn_chunk == [c1.chunk EXCEPT !.scope_size = size]
      c2 == [c1 EXCEPT !.scopes = Front(c1.scopes), !.outers = Front(c1.outers), !.chunk = parent]
  IN IF outers = <<>>
     THEN compiler_push([c2 EXCEPT !.heap = c2.heap + 1], ZapFn_new(c2.heap, size, fn_chunk))
     ELSE LET c3 == compiler_push(c2, ZapFn_new_closure(outers, fn_chunk))
          IN IF c3.st # "run" THEN c3 ELSE emit(c3, Op0("Closure"))

\* One iteration of the loop of compile: get_form then the match on the form
CompileStep(c) ==
  LET form == Last(c.forms)
      c0 == [c EXCEPT !.forms = Front(c.forms)]
  IN CASE form.f = "Value" ->
            (CASE form.v.tag = "List" ->
                    IF form.v.items = <<>> THEN eval_const(c0, form.v) ELSE eval_list(c0, form.v)
               [] form.v.tag = "Symbol" -> eval_symbol(c0, form.v.id)
               [] OTHER -> eval_const(c0, form.v))
       [] form.f = "List" ->
            IF Len(form.l.items) > form.idx THEN eval_next_in_list(c0, form.l, form.idx)
            ELSE set_argc(c0, form.idx)
       [] form.f = "Apply" -> apply(c0)
       [] form.f = "IfCond" -> eval_then_branch(c0, form.l)
       [] form.f = "IfThen" -> eval_else_branch(c0, form.l, form.ops)
       [] form.f = "IfElse" -> combine_branches(c0, form.ops, form.then_ops)
       [] form.f = "AddMany" -> eval_next_in_add(c0, form.l, form.idx)
       [] form.f = "Add" -> emit(c0, Op0("Add"))
       [] form.f = "EqualConst" -> emit(c0, Op1("EqConst", form.k))
       [] form.f = "Equal" -> emit(c0, Op0("Eq"))
       [] form.f = "Do" -> eval_next_in_do(c0, form.l, form.idx)
       [] form.f = "Define" -> emit(c0, Op0("Define"))
       [] form.f = "Return" -> wrap_fn(c0, form.chunk)
       [] form.f = "Let" -> pop_locals(c0, form.n)
       [] form.f = "Binding" -> register_binding(c0, form.s)
       [] form.f = "Quoting" -> c0

\* Compiler::chunk: the final Return and the scope size of the outermost scope
Compiler_chunk(c) ==
  [emit(c, Op0("Return")).chunk EXCEPT !.scope_size = Last(c.scopes).max]

\* fn compile, run to completion
RECURSIVE CompileLoop(_)
CompileLoop(c) ==
  IF c.st # "run" \/ c.forms = <<>> THEN c ELSE CompileLoop(CompileStep(c))

\* fn run as a function of the chunk and the environment: the loop of
\* Dispatch until run returns, cut after Fuel iterations (st stays "run").
Fuel == 60

MachineInit(chunk, e, h) ==
  LET v == VmState_new(chunk)
  IN [callframe |-> v.callframe, stack |-> v.stack, calls |-> v.calls,
      env |-> e, heap |-> h, st |-> "run", res |-> Nil, op |-> Op0("None")]

RECURSIVE RunLoop(_, _, _)
RunLoop(m, g, fuel) ==
  IF m.st # "run" \/ fuel = 0 THEN m ELSE RunLoop(Dispatch(m, g), g, fuel - 1)

run(chunk, e, h, g) == RunLoop(MachineInit(chunk, e, h), g, Fuel)

\* fn compile as a function of the form
compile(ast, h) == CompileLoop(Compiler_init(ast, h))

(***************************************************************************)
(* Reader (reader.rs).  A source text is a sequence of characters (strings *)
(* of length 1); token_buf and the text of an Atom are such sequences.  A  *)
(* reader rd is [lines, tokens, token_buf, stack].                         *)
(***************************************************************************)
\* the character written with a backquote, which a string here cannot hold
BACKQUOTE == "backquote"

Atom(s) == [t |-> "Atom", s |-> s]
Tok(name) == [t |-> name, s |-> <<>>]

\* ParentForm
PList(items) == [p |-> "List", items |-> items]
PMacro(name) == [p |-> name, items |-> <<>>]

\* Reader::new
Reader_new == [lines |-> 1, tokens |-> <<>>, token_buf |-> <<>>, stack |-> <<>>]

starts_with(buf, ch) == buf # <<>> /\ Head(buf) = ch
ends_with(buf, ch) == buf # <<>> /\ Last(buf) = ch

buf_push(rd, ch) == [rd EXCEPT !.token_buf = Append(rd.token_buf, ch)]
tokens_push_back(rd, token) == [rd EXCEPT !.tokens = Append(rd.tokens, token)]

\* Reader::flush_token
flush_token(rd) ==
  IF rd.token_buf # <<>>
  THEN [rd EXCEPT !.tokens = Append(rd.tokens, Atom(rd.token_buf)), !.token_buf = <<>>]
  ELSE rd

\* the character an escaped ch stands for in tokenize_string
Unescape(ch) ==
  CASE ch = "n" -> "\n"
    [] ch = "r" -> "\r"
    [] ch = "0" -> "NUL"
    [] ch = "t" -> "\t"
    [] OTHER -> ch

\* the loop of tokenize_string: the reader and the characters left when the
\* closing quote was met or the characters ran out
RECURSIVE string_loop(_, _, _)
string_loop(rd, chars, escaped) ==
  IF chars = <<>> THEN [rd |-> rd, rest |-> chars]
  ELSE LET ch == Head(chars)
       IN IF escaped THEN string_loop(buf_push(rd, Unescape(ch)), Tail(chars), FALSE)
          ELSE CASE ch = "\"" -> [rd |-> flush_token(rd), rest |-> Tail(chars)]
                 [] ch = "\\" -> string_loop(rd, Tail(chars), TRUE)
                 [] ch = "\n" ->
                      string_loop(buf_push([rd EXCEPT !.lines = rd.lines + 1], ch), Tail(chars), FALSE)
                 [] OTHER -> string_loop(buf_push(rd, ch), Tail(chars), FALSE)

\* Reader::tokenize_string: escaped starts as token_buf.ends_with('\\')
tokenize_string(rd, chars) == string_loop(rd, chars, ends_with(rd.token_buf, "\\"))

\* chars.any(|ch| ch == '\n'): consumes up to and including the first newline
skip_line(chars) ==
  IF \E i \in 1..Len(chars) : chars[i] = "\n"
  THEN [found |-> TRUE,
        rest |-> Drop(chars, CHOOSE i \in 1..Len(chars) :
                               chars[i] = "\n" /\ \A j \in 1..(i - 1) : chars[j] # "\n")]
  ELSE [found |-> FALSE, rest |-> <<>>]

\* the main loop of tokenize
RECURSIVE token_loop(_, _)
token_loop(rd, chars) ==
  IF chars = <<>> THEN rd
  ELSE LET ch == Head(chars)
           rest == Tail(chars)
       IN CASE ch = "\n" -> token_loop(flush_token([rd EXCEPT !.lines = rd.lines + 1]), rest)
            [] ch \in {" ", "\t", ","} -> token_loop(flush_token(rd), rest)
            [] ch = "(" -> token_loop(tokens_push_back(flush_token(rd), Tok("ListStart")), rest)
            [] ch = ")" -> token_loop(tokens_push_back(flush_token(rd), Tok("ListEnd")), rest)
            [] ch = "'" -> token_loop(tokens_push_back(flush_token(rd), Tok("Quote")), rest)
            [] ch = "@" -> token_loop(tokens_push_back(rd, Tok("Deref")), rest)
            [] ch = BACKQUOTE -> token_loop(tokens_push_back(rd, Tok("Quasiquote")), rest)
            [] ch = "^" ->
                 IF rd.token_buf = <<>> THEN token_loop(tokens_push_back(rd, Atom(<<ch>>)), rest)
                 ELSE token_loop(buf_push(rd, ch), rest)
            [] ch = "~" ->
                 IF rd.token_buf = <<>>
                 THEN IF rest = <<>> THEN buf_push(rd, ch)
                      ELSE IF Head(rest) = "@"
                      THEN token_loop(tokens_push_back(rd, Tok("SpliceUnquote")), Tail(rest))
                      ELSE token_loop(tokens_push_back(rd, Tok("Unquote")), rest)
                 ELSE token_loop(buf_push(rd, ch), rest)
            [] ch = ";" ->
                 LET rd1 == buf_push(flush_token(rd), ";")
                     k == skip_line(rest)
                 IN token_loop(IF k.found THEN [rd1 EXCEPT !.token_buf = <<>>] ELSE rd1, k.rest)
            [] ch = "\"" ->
                 LET k == tokenize_string(buf_push(flush_token(rd), "\""), rest)
                 IN token_loop(k.rd, k.rest)
            [] OTHER -> token_loop(buf_push(rd, ch), rest)

\* the start of tokenize: what token_buf holds from the previous call decides
\* how the first characters are taken
tokenize_resume(rd, src) ==
  IF starts_with(rd.token_buf, "\"") THEN tokenize_string(rd, src)
  ELSE IF starts_with(rd.token_buf, ";")
  THEN LET k == skip_line(src)
       IN [rd |-> IF k.found THEN [rd EXCEPT !.token_buf = <<>>] ELSE rd, rest |-> k.rest]
  ELSE IF starts_with(rd.token_buf, "~")
  THEN IF src = <<>> THEN [rd |-> rd, rest |-> src]
       ELSE IF Head(src) = "@"
       THEN [rd |-> tokens_push_back(rd, Tok("SpliceUnquote")), rest |-> Tail(src)]
       ELSE [rd |-> [tokens_push_back(rd, Tok("Unquote")) EXCEPT !.token_buf = <<>>], rest |-> src]
  ELSE [rd |-> rd, rest |-> src]

\* Reader::tokenize
tokenize(rd, src) == token_loop(tokenize_resume(rd, src).rd, tokenize_resume(rd, src).rest)

\* the String made of the characters
RECURSIVE Text(_)
Text(chars) == IF chars = <<>> THEN "" ELSE Head(chars) \o Text(Tail(chars))

Digits == <<"0", "1", "2", "3", "4", "5", "6", "7", "8", "9">>
DigitVal(ch) == (CHOOSE i \in 1..Len(Digits) : Digits[i] = ch) - 1

\* atom.parse::<f64>() on the numerals the texts here can spell: a run of
\* decimal digits
RECURSIVE parse_digits(_, _)
parse_digits(chars, acc) ==
  IF chars = <<>> THEN acc ELSE parse_digits(Tail(chars), acc * 10 + DigitVal(Head(chars)))

parse_f64(atom) ==
  IF atom # <<>> /\ \A i \in 1..Len(atom) : \E d \in 1..Len(Digits) : Digits[d] = atom[i]
  THEN [ok |-> TRUE, n |-> parse_digits(atom, 0)]
  ELSE [ok |-> FALSE, n |-> 0]

\* Reader::read_atom: the value, and the environment after reg_symbol
read_atom(atom, e) ==
  CASE atom = <<"n", "i", "l">> -> [val |-> Nil, env |-> e]
    [] atom = <<"t", "r", "u", "e">> -> [val |-> Bool(TRUE), env |-> e]
    [] atom = <<"f", "a", "l", "s", "e">> -> [val |-> Bool(FALSE), env |-> e]
    [] OTHER ->
         IF starts_with(atom, "\"") THEN [val |-> Str(Text(Tail(atom))), env |-> e]
         ELSE IF parse_f64(atom).ok THEN [val |-> Number(parse_f64(atom).n), env |-> e]
         ELSE [val |-> Sym(reg_symbol_id(e, Text(atom))), env |-> reg_symbol_env(e, Text(atom))]

\* results of read_ast
ReadSome(v) == [r |-> "Some", v |-> v]
ReadNone == [r |-> "None", v |-> Nil]
ReadErr(msg) == [r |-> "Err", v |-> Str(msg)]

\* Variant of read_error that leaves the stack of partial forms as it is
read_error_keeping_stack(s, msg) == [s EXCEPT !.res = ReadErr(msg)]

\* Reader::read_error
read_error(s, msg) == [s EXCEPT !.rd.stack = <<>>, !.res = ReadErr(msg)]

\* the message for a ')' that follows a reader macro
MacroErr(p) ==
  CASE p = "Quote" -> "Cannot quote a ')'"
    [] p = "Quasiquote" -> "Cannot quasiquote a ')'"
    [] p = "Unquote" -> "Cannot unquote a ')'"
    [] p = "SpliceUnquote" -> "Cannot splice-unquote a ')'"
    [] p = "Deref" -> "Cannot deref a ')'"

\* the symbol a reader macro expands to
MacroSymbol(p) ==
  CASE p = "Quote" -> "quote"
    [] p = "Quasiquote" -> "quasiquote"
    [] p = "Unquote" -> "unquote"
    [] p = "SpliceUnquote" -> "splice-unquote"
    [] p = "Deref" -> "deref"

\* Variant of expand_reader_macro that opens the list and queues no ListEnd
expand_reader_macro_unclosed(s, form, exp) ==
  [s EXCEPT !.rd.stack = Append(s.rd.stack, PList(<<form, exp>>))]

\* Reader::expand_reader_macro
expand_reader_macro(s, form, exp) ==
  [s EXCEPT !.rd.tokens = <<Tok("ListEnd")>> \o s.rd.tokens,
            !.rd.stack = Append(s.rd.stack, PList(<<form, exp>>))]

\* Reader::read_ast on s = [rd, env, heap, res]: res is what the call returns
RECURSIVE read_ast(_), read_attach(_, _), read_ast_dropping_partial(_)
\* Variant of read_ast that forgets the partial forms when the tokens run out
read_ast_dropping_partial(s) ==
  IF s.rd.tokens = <<>> THEN [s EXCEPT !.res = ReadNone, !.rd.stack = <<>>]
  ELSE LET token == Head(s.rd.tokens)
           s1 == [s EXCEPT !.rd.tokens = Tail(s.rd.tokens)]
       IN CASE token.t = "Atom" ->
                 LET a == read_atom(token.s, s1.env)
                 IN read_attach([s1 EXCEPT !.env = a.env], a.val)
            [] token.t = "ListStart" ->
                 read_ast_dropping_partial([s1 EXCEPT !.rd.stack = Append(s1.rd.stack, PList(<<>>))])
            [] token.t = "ListEnd" ->
                 IF s1.rd.stack = <<>> THEN read_error(s1, "A form cannot begin with ')'")
                 ELSE LET top == Last(s1.rd.stack)
                          s2 == [s1 EXCEPT !.rd.stack = Front(s1.rd.stack)]
                      IN IF top.p = "List"
                         THEN read_attach([s2 EXCEPT !.heap = s2.heap + 1], List(s2.heap, top.items))
                         ELSE read_error(s2, MacroErr(top.p))
            [] OTHER ->
                 read_ast_dropping_partial([s1 EXCEPT !.rd.stack = Append(s1.rd.stack, PMacro(token.t))])

read_ast(s) ==
  IF s.rd.tokens = <<>> THEN [s EXCEPT !.res = ReadNone]
  ELSE LET token == Head(s.rd.tokens)
           s1 == [s EXCEPT !.rd.tokens = Tail(s.rd.tokens)]
       IN CASE token.t = "Atom" ->
                 LET a == read_atom(token.s, s1.env)
                 IN read_attach([s1 EXCEPT !.env = a.env], a.val)
            [] token.t = "ListStart" ->
                 read_ast([s1 EXCEPT !.rd.stack = Append(s1.rd.stack, PList(<<>>))])
            [] token.t = "ListEnd" ->
                 IF s1.rd.stack = <<>> THEN read_error(s1, "A form cannot begin with ')'")
                 ELSE LET top == Last(s1.rd.stack)
                          s2 == [s1 EXCEPT !.rd.stack = Front(s1.rd.stack)]
                      IN IF top.p = "List"
                         THEN read_attach([s2 EXCEPT !.heap = s2.heap + 1], List(s2.heap, top.items))
                         ELSE read_error(s2, MacroErr(top.p))
            [] OTHER -> read_ast([s1 EXCEPT !.rd.stack = Append(s1.rd.stack, PMacro(token.t))])
\* the match on self.stack.pop() that places the expression just read
read_attach(s, exp) ==
  IF s.rd.stack = <<>> THEN [s EXCEPT !.res = ReadSome(exp)]
  ELSE LET top == Last(s.rd.stack)
           s1 == [s EXCEPT !.rd.stack = Front(s.rd.stack)]
       IN IF top.p = "List"
          THEN read_ast([s EXCEPT !.rd.stack = Append(Front(s.rd.stack), PList(Append(top.items, exp)))])
          ELSE read_ast(expand_reader_macro(
                          [s1 EXCEPT !.env = reg_symbol_env(s1.env, MacroSymbol(top.p))],
                          Sym(reg_symbol_id(s1.env, MacroSymbol(top.p))), exp))

(***************************************************************************)
(* Printer (printer.rs).  The printed text is a sequence of characters,    *)
(* as the source text of the reader is.                                    *)
(***************************************************************************)
\* the characters of a String
Chars(str) == [i \in 1..Len(str) |-> SubSeq(str, i, i)]

\* str::replace(from, to) for a one-character pattern
RECURSIVE str_replace(_, _, _)
str_replace(chars, from, to) ==
  IF chars = <<>> THEN <<>>
  ELSE (IF Head(chars) = from THEN to ELSE <<Head(chars)>>) \o str_replace(Tail(chars), from, to)

\* escape_str: the three replacements in the order of the code
escape_str(chars) ==
  str_replace(str_replace(str_replace(chars, "\"", <<"\\", "\"">>), "\\", <<"\\", "\\">>),
              "\n", <<"\\", "n">>)

\* format!("{}", f) for the numbers of the model: the decimal digits
RECURSIVE fmt_number(_)
fmt_number(n) ==
  IF n < 10 THEN <<Digits[n + 1]>> ELSE fmt_number(n \div 10) \o <<Digits[(n % 10) + 1]>>

\* ZapExp::pr_str and pr_seq
RECURSIVE pr_str(_, _), pr_seq(_, _, _)
pr_str(v, e) ==
  CASE v.tag = "Nil" -> Chars("nil")
    [] v.tag = "Bool" -> IF v.b THEN Chars("true") ELSE Chars("false")
    [] v.tag = "Number" -> fmt_number(v.n)
    [] v.tag = "Symbol" -> Chars(get_symbol(e, v.id))
    [] v.tag = "Str" -> <<"\"">> \o escape_str(Chars(v.s)) \o <<"\"">>
    [] v.tag = "List" -> <<"(">> \o pr_seq(v.items, 1, e) \o <<")">>
    [] OTHER -> Chars("#<function>")
\* strs.join(" ") over the printed elements from the i-th on
pr_seq(items, i, e) ==
  IF i > Len(items) THEN <<>>
  ELSE pr_str(items[i], e) \o (IF i < Len(items) THEN <<" ">> ELSE <<>>) \o pr_seq(items, i + 1, e)

(***************************************************************************)
(* Forms given to the pipeline.  A form is written with list ptr 0; the    *)
(* reader allocates a fresh Arc for every list it builds (Value::new_list  *)
(* in read_ast), which Fresh does when the form is read.                   *)
(***************************************************************************)
UserSymbols == <<"x", "y", "f", "n", "lp", "gg">>

\* SandboxEnv::default: the reserved symbols are interned, no global is bound
EnvDefault ==
  [symbols |-> DEFAULT_SYMBOLS, globals |-> [i \in 1..Len(DEFAULT_SYMBOLS) |-> None]]

RECURSIVE reg_all(_, _)
reg_all(env, texts) ==
  IF texts = <<>> THEN env ELSE reg_all(reg_symbol_env(env, Head(texts)), Tail(texts))

\* The environment after the reader interned the symbols of the session
EnvInit == reg_all(EnvDefault, UserSymbols)

S(text) == Sym(reg_symbol_id(EnvInit, text))
L(items) == List(0, items)

RECURSIVE Fresh(_, _), FreshItems(_, _, _)
Fresh(v, next) ==
  IF v.tag = "List"
  THEN LET r == FreshItems(v.items, 1, next + 1)
       IN [v |-> List(next, r.items), next |-> r.next]
  ELSE [v |-> v, next |-> next]
FreshItems(items, i, next) ==
  IF i > Len(items) THEN [items |-> items, next |-> next]
  ELSE LET r == Fresh(items[i], next)
       IN FreshItems([items EXCEPT ![i] = r.v], i + 1, r.next)

sIf == Sym(symbols_IF)
sLet == Sym(symbols_LET)
sFn == Sym(symbols_FN)
sDo == Sym(symbols_DO)
sDef == Sym(symbols_DEFINE)
sQuote == Sym(symbols_QUOTE)
sPlus == Sym(symbols_PLUS)
sEqual == Sym(symbols_EQUAL)

\* (fn (x) x)
FnId == L(<<sFn, L(<<S("x")>>), S("x")>>)
\* ((fn (x) x) v): the call is in tail position of the top-level chunk
CallIdTail(v) == L(<<FnId, v>>)
\* (do ((fn (x) x) v) ((fn (x) x) v)): the first call is a Call
CallIdCall(v) == L(<<sDo, L(<<FnId, v>>), L(<<FnId, v>>)>>)
\* (nil (fn () ((fn (x) x) v))): the inner call runs inside a function
CallIdDeep(v) == L(<<Nil, L(<<sFn, L(<<>>), L(<<FnId, v>>)>>)>>)
\* ((fn (x y) y) 1 v)
CallSnd(v) == L(<<L(<<sFn, L(<<S("x"), S("y")>>), S("y")>>), Number(1), v>>)

ArgVals == {Number(4), Nil, Str("a")}

FnForms ==
  {CallIdTail(v) : v \in ArgVals} \cup {CallIdCall(v) : v \in ArgVals}
  \cup {CallIdDeep(v) : v \in ArgVals} \cup {CallSnd(v) : v \in ArgVals}

\* (let (f (fn (x) (fn () x))) ((f 4)))
Scenario6 ==
  L(<<sLet, L(<<S("f"), L(<<sFn, L(<<S("x")>>), L(<<sFn, L(<<>>), S("x")>>)>>)>>),
      L(<<L(<<S("f"), Number(4)>>)>>)>>)
\* (let (n 2 f (fn (x) (+ x n))) (f 3))
EvalClosure ==
  L(<<sLet, L(<<S("n"), Number(2), S("f"), L(<<sFn, L(<<S("x")>>), L(<<sPlus, S("x"), S("n")>>)>>)>>),
      L(<<S("f"), Number(3)>>)>>)
\* (let (n v f (fn () n)) (nil f))
LetFnSees(v) ==
  L(<<sLet, L(<<S("n"), v, S("f"), L(<<sFn, L(<<>>), S("n")>>)>>), L(<<Nil, S("f")>>)>>)
\* (fn () (let (y 1) (fn () y)))
Maker == L(<<sFn, L(<<>>), L(<<sLet, L(<<S("y"), Number(1)>>), L(<<sFn, L(<<>>), S("y")>>)>>)>>)
\* (let (n 7) (do (nil (fn () (let (y 1) (fn () y)))) true))
CaptureCall == L(<<sLet, L(<<S("n"), Number(7)>>), L(<<sDo, L(<<Nil, Maker>>), Bool(TRUE)>>)>>)
\* (nil (fn () (let (y 1) (fn () y))))
CaptureTail == L(<<Nil, Maker>>)

\* forms in which every closure captures a local of the function (or top
\* level) whose activation executes the Closure op
DirectCaptureForms == {LetFnSees(v) : v \in ArgVals} \cup {CaptureCall, CaptureTail}

ClosureForms == DirectCaptureForms \cup {Scenario6, EvalClosure}

\* (def lp (fn () (nil lp)))
DefLp == L(<<sDef, S("lp"), L(<<sFn, L(<<>>), L(<<Nil, S("lp")>>)>>)>>)
\* (nil lp)
CallLp == L(<<Nil, S("lp")>>)
\* (def f (fn (x) (if (= x 2) "boom" (f (+ x 1)))))
DefRec ==
  L(<<sDef, S("f"),
      L(<<sFn, L(<<S("x")>>),
          L(<<sIf, L(<<sEqual, S("x"), Number(2)>>), Str("boom"),
              L(<<S("f"), L(<<sPlus, S("x"), Number(1)>>)>>)>>)>>)>>)
\* (f 0)
CallRec == L(<<S("f"), Number(0)>>)

\* (def f (fn (x) (if (= x 2) "boom" (nil f (+ x 1))))): the self tail call
\* is written callee-second, which is how Tailcall(2) takes its operands
DefCount ==
  L(<<sDef, S("f"),
      L(<<sFn, L(<<S("x")>>),
          L(<<sIf, L(<<sEqual, S("x"), Number(2)>>), Str("boom"),
              L(<<Nil, S("f"), L(<<sPlus, S("x"), Number(1)>>)>>)>>)>>)>>)
\* (nil f 0)
CallCount == L(<<Nil, S("f"), Number(0)>>)

\* (def x)
DefShort == L(<<sDef, S("x")>>)
\* ((fn (x) x))
CallNoArg == L(<<FnId>>)
\* (nil (fn () 1) 2 3)
CallExtra == L(<<Nil, L(<<sFn, L(<<>>), Number(1)>>), Number(2), Number(3)>>)
\* (if)
IfShort == L(<<sIf>>)

PanicForms == {DefShort, CallNoArg, CallExtra, IfShort}

EqVals == {Number(1), Nil, Bool(FALSE)}
\* (= a b)
EqKK(a, b) == L(<<sEqual, a, b>>)
\* (let (x a) (= x b))
EqSK(a, b) == L(<<sLet, L(<<S("x"), a>>), L(<<sEqual, S("x"), b>>)>>)
\* (let (y b) (= a y))
EqKS(a, b) == L(<<sLet, L(<<S("y"), b>>), L(<<sEqual, a, S("y")>>)>>)
\* (let (x a y b) (= x y))
EqSS(a, b) == L(<<sLet, L(<<S("x"), a, S("y"), b>>), L(<<sEqual, S("x"), S("y")>>)>>)

EqForms ==
  UNION {{EqKK(a, b), EqSK(a, b), EqKS(a, b), EqSS(a, b)} : a \in EqVals, b \in EqVals}

CondVals == {Nil, Bool(FALSE), Bool(TRUE), Number(0), Str(""), L(<<>>)}
\* (if c 10 20)
IfTail(c) == L(<<sIf, c, Number(10), Number(20)>>)
\* (+ (if c 10 20) 0)
IfJmp(c) == L(<<sPlus, IfTail(c), Number(0)>>)
\* (let (x c) (if x 10 20))
IfSym(c) == L(<<sLet, L(<<S("x"), c>>), IfTail(S("x"))>>)
\* (nil (fn () (if c 10 20)))
IfInFn(c) == L(<<Nil, L(<<sFn, L(<<>>), IfTail(c)>>)>>)
\* (do (if c (def x 1) (def y 2)) 3)
IfDef(c) ==
  L(<<sDo, L(<<sIf, c, L(<<sDef, S("x"), Number(1)>>), L(<<sDef, S("y"), Number(2)>>)>>), Number(3)>>)

IfForms == UNION {{IfTail(c), IfJmp(c), IfSym(c), IfInFn(c), IfDef(c)} : c \in CondVals}

\* (do (let (n 2) (def f (fn () n))) (let (y 5) (nil f)))
SnapReuse ==
  L(<<sDo, L(<<sLet, L(<<S("n"), Number(2)>>), L(<<sDef, S("f"), L(<<sFn, L(<<>>), S("n")>>)>>)>>),
      L(<<sLet, L(<<S("y"), Number(5)>>), L(<<Nil, S("f")>>)>>)>>)
\* (let (n 2 f (fn () n)) (let (n 5) (nil f)))
SnapShadow ==
  L(<<sLet, L(<<S("n"), Number(2), S("f"), L(<<sFn, L(<<>>), S("n")>>)>>),
      L(<<sLet, L(<<S("n"), Number(5)>>), L(<<Nil, S("f")>>)>>)>>)

SnapForms == {SnapReuse, SnapShadow}

\* (do (def x 1) gg)
ErrLookup == L(<<sDo, L(<<sDef, S("x"), Number(1)>>), S("gg")>>)
\* (do (def x 1) (+ nil 1))
ErrAdd == L(<<sDo, L(<<sDef, S("x"), Number(1)>>), L(<<sPlus, Nil, Number(1)>>)>>)
\* (do (def y 2) (def 5 3))
ErrDefine == L(<<sDo, L(<<sDef, S("y"), Number(2)>>), L(<<sDef, Number(5), Number(3)>>)>>)
\* (let (n 9) (do (nil (fn () gg)) n))
ErrDeep == L(<<sLet, L(<<S("n"), Number(9)>>), L(<<sDo, L(<<Nil, L(<<sFn, L(<<>>), S("gg")>>)>>), S("n")>>)>>)

ErrForms == {ErrLookup, ErrAdd, ErrDefine, ErrDeep}

\* x, y, (let (y 3) (+ y 1))
UseForms == {S("x"), S("y"), L(<<sLet, L(<<S("y"), Number(3)>>), L(<<sPlus, S("y"), Number(1)>>)>>)}

\* (def x 3)
DefConst == L(<<sDef, S("x"), Number(3)>>)
\* (def x (+ 1 2))
DefExpr == L(<<sDef, S("x"), L(<<sPlus, Number(1), Number(2)>>)>>)
\* (do (def x 1) (def x 2) x)
DefTwice == L(<<sDo, L(<<sDef, S("x"), Number(1)>>), L(<<sDef, S("x"), Number(2)>>), S("x")>>)
\* (+ (def x 3) x): the value def yields and the binding it made, in one run
DefUse == L(<<sPlus, L(<<sDef, S("x"), Number(3)>>), S("x")>>)
\* (def y 7)
DefOther == L(<<sDef, S("y"), Number(7)>>)
\* (def x 5)
DefAgain == L(<<sDef, S("x"), Number(5)>>)

DefForms == {DefConst, DefExpr, DefTwice, DefUse}

\* def in one run and lookups in later runs, with a def of y or x in between
DefSessions ==
  {<<DefConst, S("x")>>, <<DefConst, DefOther, S("x")>>, <<DefConst, DefAgain, S("x")>>,
   <<DefConst, S("x"), S("x")>>}

\* (let (n 1) gg): gg is looked up among the globals although a local exists
UnboundInLet == L(<<sLet, L(<<S("n"), Number(1)>>), S("gg")>>)
\* (+ 1 y)
UnboundInAdd == L(<<sPlus, Number(1), S("y")>>)

\* gg, y, if: interned symbols without a global binding
UnboundForms == {S("gg"), S("y"), sIf, UnboundInLet, UnboundInAdd}

AddVals == {Number(1), Number(2), Nil}
\* (+)
AddNone == L(<<sPlus>>)
\* (+ a)
AddOne(a) == L(<<sPlus, a>>)
\* (+ a b) and (+ a b c)
AddKK(a, b) == L(<<sPlus, a, b>>)
AddKKK(a, b, c) == L(<<sPlus, a, b, c>>)
\* (let (x a) (+ x b)), (let (x b) (+ a x)), (let (x a y b) (+ x y))
AddSK(a, b) == L(<<sLet, L(<<S("x"), a>>), L(<<sPlus, S("x"), b>>)>>)
AddKS(a, b) == L(<<sLet, L(<<S("x"), b>>), L(<<sPlus, a, S("x")>>)>>)
AddSS(a, b) == L(<<sLet, L(<<S("x"), a, S("y"), b>>), L(<<sPlus, S("x"), S("y")>>)>>)
\* (+ a (+ b c)) and (+ (+ a b) c)
AddNestedR(a, b, c) == L(<<sPlus, a, L(<<sPlus, b, c>>)>>)
AddNestedL(a, b, c) == L(<<sPlus, L(<<sPlus, a, b>>), c>>)
\* (+ 1 2 3 (+ 4 2))
AddTest == L(<<sPlus, Number(1), Number(2), Number(3), L(<<sPlus, Number(4), Number(2)>>)>>)
\* (+ (def x 1) (def x 2) x): 5 only if the operands run from left to right
AddOrder == L(<<sPlus, L(<<sDef, S("x"), Number(1)>>), L(<<sDef, S("x"), Number(2)>>), S("x")>>)
\* (+ (+) (+ 2))
AddOfEmpty == L(<<sPlus, L(<<sPlus>>), L(<<sPlus, Number(2)>>)>>)

AddForms ==
  {AddNone, AddTest, AddOrder, AddOfEmpty}
  \cup {AddOne(a) : a \in AddVals \cup {Str("a")}}
  \cup {AddKK(a, b) : a \in AddVals, b \in AddVals}
  \cup {AddSK(a, b) : a \in AddVals, b \in AddVals}
  \cup {AddKS(a, b) : a \in AddVals, b \in AddVals}
  \cup {AddSS(a, b) : a \in AddVals, b \in AddVals}
  \cup {AddKKK(a, b, c) : a \in AddVals, b \in AddVals, c \in AddVals}
  \cup {AddNestedR(a, b, c) : a \in AddVals, b \in AddVals, c \in AddVals}
  \cup {AddNestedL(a, b, c) : a \in AddVals, b \in AddVals, c \in AddVals}

LetVals == {Number(1), Number(12), Nil}
\* (let (x a) x)
LetOne(a) == L(<<sLet, L(<<S("x"), a>>), S("x")>>)
\* (let (x a y x) y): the second value refers to the first binding
LetChain(a) == L(<<sLet, L(<<S("x"), a, S("y"), S("x")>>), S("y")>>)
\* (let (x a y b) x) and (let (x a y b) y): the body sees both bindings
LetFst(a, b) == L(<<sLet, L(<<S("x"), a, S("y"), b>>), S("x")>>)
LetSnd(a, b) == L(<<sLet, L(<<S("x"), a, S("y"), b>>), S("y")>>)
\* (let (x 12 y (+ x 12)) (+ y 3))
LetTest == L(<<sLet, L(<<S("x"), Number(12), S("y"), L(<<sPlus, S("x"), Number(12)>>)>>),
               L(<<sPlus, S("y"), Number(3)>>)>>)
\* (let (x 1 y (+ x 1) n (+ x y)) (+ x y n))
LetThree ==
  L(<<sLet, L(<<S("x"), Number(1), S("y"), L(<<sPlus, S("x"), Number(1)>>),
                S("n"), L(<<sPlus, S("x"), S("y")>>)>>),
      L(<<sPlus, S("x"), S("y"), S("n")>>)>>)
\* (let (x (def n 1) y (def n 2)) (+ x n)): 3 only if v1 runs before v2
LetOrder ==
  L(<<sLet, L(<<S("x"), L(<<sDef, S("n"), Number(1)>>), S("y"), L(<<sDef, S("n"), Number(2)>>)>>),
      L(<<sPlus, S("x"), S("n")>>)>>)
\* (let (x 1) (+ (let (x 2 y x) y) x)): the inner x shadows, the outer x returns
LetShadow ==
  L(<<sLet, L(<<S("x"), Number(1)>>),
      L(<<sPlus, L(<<sLet, L(<<S("x"), Number(2), S("y"), S("x")>>), S("y")>>), S("x")>>)>>)
\* (let (x (let (y 1) y) y (+ x 1)) (+ x y)): a let as a value
LetInValue ==
  L(<<sLet, L(<<S("x"), L(<<sLet, L(<<S("y"), Number(1)>>), S("y")>>),
                S("y"), L(<<sPlus, S("x"), Number(1)>>)>>),
      L(<<sPlus, S("x"), S("y")>>)>>)
\* (let () 7)
LetEmpty == L(<<sLet, L(<<>>), Number(7)>>)
\* (nil (fn (x) (let (y (+ x 1)) (+ x y))) 5): the slot of y follows the parameter
LetInFn ==
  L(<<Nil, L(<<sFn, L(<<S("x")>>),
               L(<<sLet, L(<<S("y"), L(<<sPlus, S("x"), Number(1)>>)>>), L(<<sPlus, S("x"), S("y")>>)>>)>>),
      Number(5)>>)

LetForms ==
  {LetTest, LetThree, LetOrder, LetShadow, LetInValue, LetEmpty, LetInFn}
  \cup {LetOne(a) : a \in LetVals} \cup {LetChain(a) : a \in LetVals}
  \cup {LetFst(a, b) : a \in LetVals, b \in LetVals}
  \cup {LetSnd(a, b) : a \in LetVals, b \in LetVals}

DoVals == {Number(1), Nil, Str("a")}
\* (do a)
DoOne(a) == L(<<sDo, a>>)
\* (do a b)
DoTwo(a, b) == L(<<sDo, a, b>>)
\* (do 1 2 3)
DoTest == L(<<sDo, Number(1), Number(2), Number(3)>>)
\* (do (def x 1) (def y x) (def x 2) (+ x y)): 3 only in the order e1..e4
DoOrder ==
  L(<<sDo, L(<<sDef, S("x"), Number(1)>>), L(<<sDef, S("y"), S("x")>>),
      L(<<sDef, S("x"), Number(2)>>), L(<<sPlus, S("x"), S("y")>>)>>)
\* (do (do 1 2) (do 3 4))
DoNested == L(<<sDo, L(<<sDo, Number(1), Number(2)>>), L(<<sDo, Number(3), Number(4)>>)>>)
\* (+ (do 1 2) (do 3 4))
DoInAdd == L(<<sPlus, L(<<sDo, Number(1), Number(2)>>), L(<<sDo, Number(3), Number(4)>>)>>)
\* (let (x (do 1 2)) (do x 5 x))
DoInLet ==
  L(<<sLet, L(<<S("x"), L(<<sDo, Number(1), Number(2)>>)>>), L(<<sDo, S("x"), Number(5), S("x")>>)>>)
\* (do (if true 1 2) (if nil 3 4))
DoIf ==
  L(<<sDo, L(<<sIf, Bool(TRUE), Number(1), Number(2)>>), L(<<sIf, Nil, Number(3), Number(4)>>)>>)

DoForms ==
  {DoTest, DoOrder, DoNested, DoInAdd, DoInLet, DoIf}
  \cup {DoOne(a) : a \in DoVals} \cup {DoTwo(a, b) : a \in DoVals, b \in DoVals}

sQuasiquote == Sym(symbols_QUASIQUOTE)
\* the quoted values: 5, nil, "a", x, (), (1 2 3), (+ 2 2 2), (1 (2 x))
QuasiVals ==
  {Number(5), Nil, Str("a"), S("x"), L(<<>>), L(<<Number(1), Number(2), Number(3)>>),
   L(<<sPlus, Number(2), Number(2), Number(2)>>),
   L(<<Number(1), L(<<Number(2), S("x")>>)>>)}
\* (quasiquote v)
Quasi(v) == L(<<sQuasiquote, v>>)
\* (quote v)
Quote(v) == L(<<sQuote, v>>)

QuasiForms == {Quasi(v) : v \in QuasiVals} \cup {Quote(v) : v \in QuasiVals}

\* Special forms of every length up to MaxArity but the right one:
\* (if), (if 1), (if 1 2), (if 1 2 3 4), (def), (def x), (def x 2 3), (fn),
\* (fn ()), (fn () 2 3), (let), (let ()), (let () 2 3), (=), (= 1), (= 1 2 3)
MaxArity == 5

ArityHeads == {"if", "def", "fn", "let", "="}

ArityOf(h) == IF h = "if" THEN 4 ELSE 3

\* the k-th parameter of the form
ArityArg(h, k) ==
  IF k > 1 THEN Number(k)
  ELSE CASE h = "def" -> S("x")
         [] h \in {"fn", "let"} -> L(<<>>)
         [] OTHER -> Number(1)

ArityForm(h, n) == L(<<S(h)>> \o [k \in 1..(n - 1) |-> ArityArg(h, k)])

ArityForms == {ArityForm(h, n) : h \in ArityHeads, n \in 1..MaxArity} \ {ArityForm(h, ArityOf(h)) : h \in ArityHeads}

\* Calls of (f 1) in every position.  Each case is the form and the call ops
\* its chunks hold, in the order of the ops, the ops of a function after
\* those of the chunk that holds it.
CallF == L(<<S("f"), Number(1)>>)

FnOf(body) == L(<<sFn, L(<<>>), body>>)

IfOf(c, t, e) == L(<<sIf, c, t, e>>)

LetX(v, body) == L(<<sLet, L(<<S("x"), v>>), body>>)

PosCase(form, calls) == [form |-> form, calls |-> calls]

PositionCases ==
  {PosCase(CallF, <<"Tailcall">>),
   PosCase(L(<<S("f"), CallF>>), <<"Call", "Tailcall">>),
   PosCase(L(<<sDo, CallF, Number(2)>>), <<"Call">>),
   PosCase(L(<<sDo, Number(2), CallF>>), <<"Tailcall">>),
   PosCase(IfOf(CallF, Number(2), Number(3)), <<"Call">>),
   PosCase(IfOf(Number(1), CallF, CallF), <<"Tailcall", "Tailcall">>),
   PosCase(LetX(CallF, S("x")), <<"Call">>),
   PosCase(LetX(Number(1), CallF), <<"Tailcall">>),
   PosCase(L(<<sDef, S("x"), CallF>>), <<"Call">>),
   PosCase(L(<<sPlus, CallF, Number(2)>>), <<"Call">>),
   PosCase(L(<<sPlus, Number(2), CallF>>), <<"Call">>),
   PosCase(L(<<sPlus, CallF, CallF>>), <<"Call", "Call">>),
   PosCase(L(<<sEqual, CallF, Number(2)>>), <<"Call">>),
   PosCase(FnOf(CallF), <<"Tailcall">>),
   PosCase(FnOf(L(<<sDo, CallF, CallF>>)), <<"Call", "Tailcall">>),
   PosCase(FnOf(L(<<sPlus, Number(1), CallF>>)), <<"Call">>),
   PosCase(L(<<S("f"), FnOf(CallF)>>), <<"Tailcall", "Tailcall">>),
   PosCase(IfOf(Number(1), IfOf(Number(2), CallF, Number(3)), LetX(Number(1), CallF)), <<"Tailcall", "Tailcall">>),
   PosCase(L(<<sPlus, Number(1), IfOf(Number(1), CallF, Number(2))>>), <<"Call">>),
   PosCase(L(<<sDo, IfOf(Number(1), CallF, Number(2)), Number(3)>>), <<"Call">>),
   PosCase(LetX(IfOf(Number(1), CallF, Number(2)), S("x")), <<"Call">>)}

PositionForms == {p.form : p \in PositionCases}

\* Constants that repeat, and constants whose index is taken before an if or
\* a fn is compiled
\* (do 7 7 "a" "a" nil nil 7)
ConstRepeat == L(<<sDo, Number(7), Number(7), Str("a"), Str("a"), Nil, Nil, Number(7)>>)
\* (= 7 (if 1 8 7))
ConstEqIf == L(<<sEqual, Number(7), IfOf(Number(1), Number(8), Number(7))>>)
\* (= 7 (nil (fn () (do 8 7))))
ConstEqFn == L(<<sEqual, Number(7), L(<<Nil, FnOf(L(<<sDo, Number(8), Number(7)>>))>>)>>)
\* (= (nil (fn () 7)) 7)
ConstFnEq == L(<<sEqual, L(<<Nil, FnOf(Number(7))>>), Number(7)>>)
\* (+ 7 (nil (fn () 7)) 7 8)
ConstAddFn == L(<<sPlus, Number(7), L(<<Nil, FnOf(Number(7))>>), Number(7), Number(8)>>)
\* (fn () (= 7 (if 1 8 7)))
ConstInFn == FnOf(ConstEqIf)
\* (do (quote x) (quote x) (def x 7))
ConstSymbols == L(<<sDo, L(<<sQuote, S("x")>>), L(<<sQuote, S("x")>>), L(<<sDef, S("x"), Number(7)>>)>>)

ConstForms == {ConstRepeat, ConstEqIf, ConstEqFn, ConstFnEq, ConstAddFn, ConstInFn, ConstSymbols}

\* Locals of several kinds in one scope: parameters, let bindings and
\* captured outers
\* (let (n 1) (fn () (do (let (y 2) n) n))): n is captured inside the let and
\* again after it
LocalTwice ==
  L(<<sLet, L(<<S("n"), Number(1)>>),
      FnOf(L(<<sDo, L(<<sLet, L(<<S("y"), Number(2)>>), S("n")>>), S("n")>>))>>)
\* (fn (x y) (let (n 1) (fn () (do x n)))): a parameter and a let binding
\* captured by a nested fn
LocalNest ==
  L(<<sFn, L(<<S("x"), S("y")>>),
      L(<<sLet, L(<<S("n"), Number(1)>>), FnOf(L(<<sDo, S("x"), S("n")>>))>>)>>)
\* (fn (x) (if x (let (y 1 n 2) y) (let (y 3) y))): the branches declare 2
\* and 1 locals after the parameter
LocalBranch ==
  L(<<sFn, L(<<S("x")>>),
      IfOf(S("x"), L(<<sLet, L(<<S("y"), Number(1), S("n"), Number(2)>>), S("y")>>),
                   L(<<sLet, L(<<S("y"), Number(3)>>), S("y")>>))>>)

\* (let (n 1) (fn () (do (let (y 2) n) y))): y is named after the let that
\* bound it, in which n was captured
LetLeak ==
  L(<<sLet, L(<<S("n"), Number(1)>>),
      FnOf(L(<<sDo, L(<<sLet, L(<<S("y"), Number(2)>>), S("n")>>), S("y")>>))>>)

LocalForms == {LocalTwice, LocalNest, LocalBranch, LetLeak}

\* An if in both branches of an if, as an operand and in tail position
JumpConds == {Number(1), Nil}
\* (if c (if d 1 2) (if d 3 4))
JumpTail(c, d) ==
  IfOf(c, IfOf(d, Number(1), Number(2)), IfOf(d, Number(3), Number(4)))
\* (+ (if c (if d 1 2) (if d 3 4)) 5)
JumpNest(c, d) == L(<<sPlus, JumpTail(c, d), Number(5)>>)
\* (nil (fn () (+ (if c (if d 1 2) (if d 3 4)) 5)))
JumpInFn(c, d) == L(<<Nil, FnOf(JumpNest(c, d))>>)
\* what (if c (if d 1 2) (if d 3 4)) is
JumpValue(c, d) == IF c # Nil THEN (IF d # Nil THEN 1 ELSE 2) ELSE (IF d # Nil THEN 3 ELSE 4)

JumpForms ==
  UNION {{JumpTail(c, d), JumpNest(c, d), JumpInFn(c, d)} : c \in JumpConds, d \in JumpConds}

\* Tail calls with arguments, written callee-second
\* (do (nil (fn () (nil (fn (x) x) v))) 9): the tail call runs in a frame
\* whose ret is 1
TailArgDeep(v) ==
  L(<<sDo, L(<<Nil, FnOf(L(<<Nil, FnId, v>>))>>), Number(9)>>)
\* (nil (fn (x y n) n) 1 2 3): the three arguments start at slot 2 and go to
\* slots 0, 1, 2
TailArgMany ==
  L(<<Nil, L(<<sFn, L(<<S("x"), S("y"), S("n")>>), S("n")>>), Number(1), Number(2), Number(3)>>)
\* (nil (fn (x y) y) 1 v)
TailArgTwo(v) == L(<<Nil, L(<<sFn, L(<<S("x"), S("y")>>), S("y")>>), Number(1), v>>)

TailArgForms == {TailArgDeep(v) : v \in ArgVals} \cup {TailArgTwo(v) : v \in ArgVals} \cup {TailArgMany}

Forms == TailArgForms \cup JumpForms \cup LocalForms \cup ConstForms \cup PositionForms \cup ArityForms \cup FnForms \cup ClosureForms \cup PanicForms \cup EqForms \cup IfForms \cup SnapForms \cup ErrForms
         \cup DefForms \cup UnboundForms \cup AddForms \cup LetForms \cup DoForms \cup QuasiForms

\* A session is the sequence of forms a client sends
Sessions ==
  {<<p>> : p \in Forms}
  \cup {<<DefLp, CallLp>>, <<DefRec, CallRec>>, <<DefCount, CallCount>>}
  \cup {<<e, u>> : e \in ErrForms, u \in UseForms}
  \cup DefSessions
  \cup {<<S("gg"), S("gg")>>, <<S("y"), DefOther, S("y")>>}

(***************************************************************************)
(* The session: a REPL loop that reads the next form, compiles it and runs *)
(* the chunk against the same environment (lib.rs run_exp, repl.rs).       *)
(***************************************************************************)
\* env0 is a history variable: the environment at the time run was called
VARIABLES input, src, phase, comp, vm, env, env0, heap, status, result, op

\* The reader: sent is the text given to tokenize so far, chunked
\* the reader that received it piece by piece, whole the reader that receives
\* it at once, rphase the step the reading is at ("off" during a session).
\* chunked and whole are [rd, env, heap, res, out, fin]: the Reader, its
\* environment, the list allocator, the result of the last read_ast, the
\* results so far, and whether read_ast has returned Ok(None).
\* eager is a reader that receives the pieces as chunked does and on which
\* read_ast is also called between the calls of tokenize.
VARIABLES sent, chunked, whole, eager, rphase

\* The hub of shared environments: hub is what every SharedEnv of the server
\* points to, [symbols, shared_globals]; envs[b] is session b,
\* [st, globals, pend, wrote]: st is "none" before the session is cloned,
\* "idle" between calls, "set" between the two statements of set, "panic"
\* after a checked index failed and "ub" after an unchecked one left its
\* bounds; pend holds the arguments of the set in progress, wrote the last
\* value of each id whose set returned Ok in this session.  hcall is the call
\* that acted last, [who, call, id, r, val]; r is "pending" between the two
\* statements of set.
\* hist is history: the texts in order of first registration.
\* locks is the state of the two RwLocks of the hub, [symbols,
\* shared_globals], each [w, r]: the session that holds it for writing (0 for
\* none) and the sessions that hold it for reading.
VARIABLES hub, envs, hcall, hist, locks

\* The environment of the tree-walking evaluator: sandbox is a SandboxEnv,
\* [scope, locals, stack], scope and every shadow of stack a map from the
\* symbols TKeys to a value or None (no entry); marks holds, for every scope
\* that is open, what get answered for every symbol just before its push;
\* sbst is "ok", or "panic" after an unwrap failed.
\* ev is the Evaluator whose env is sandbox, [path, stack, top, mode, st,
\* msg, depth0, todo]: mode is "down" at the head of eval's outer loop and
\* "up" at the head of its inner loop, st is "off" before the evaluator is
\* made, "idle" before the first eval, "run" inside eval and "ok", "err" or
\* "panic" after it; depth0 is the length of the environment's stack when
\* eval was called, todo the forms still to evaluate.
VARIABLES sandbox, marks, sbst, ev

svars == <<input, src, phase, comp, vm, env, env0, heap, status, result, op>>
rvars == <<sent, chunked, whole, eager, rphase>>
tvars == <<sandbox, marks, sbst, ev>>
hvars == <<hub, envs, hcall, hist, locks, tvars>>
vars == <<input, src, phase, comp, vm, env, env0, heap, status, result, op,
          sent, chunked, whole, eager, rphase, hub, envs, hcall, hist, locks,
          sandbox, marks, sbst, ev>>

MaxSessions == 2

Conns == 1..MaxSessions

\* The sessions of the hub with its locks: a writer and two readers are what
\* it takes to keep a lock held without a gap, so there is one session more
LockConns == 1..(MaxSessions + 1)

NoCall == [who |-> 0, call |-> "none", id |-> 0, r |-> "none", val |-> Nil]

EnvNone == [st |-> "none", globals |-> <<>>, pend |-> NoCall, wrote |-> {}]

\* The symbols the programs of the tree-walking evaluator use
TKeys == {S("x").id, S("y").id, S("f").id, S("n").id}

\* Scope::default: no entry
ScopeEmpty == [k \in TKeys |-> None]

\* SandboxEnv::default
SandboxEnv_default == [scope |-> ScopeEmpty, locals |-> {}, stack |-> <<>>]

\* SandboxEnv::push: the values of the locals move to a shadow on the stack,
\* locals is drained; unwrap panics on a local without an entry
SandboxEnv_push(e) ==
  IF \E k \in e.locals : e.scope[k] = None
  THEN [ok |-> FALSE, e |-> e]
  ELSE [ok |-> TRUE,
        e |-> [e EXCEPT !.locals = {},
                        !.stack = Append(@, [k \in TKeys |-> IF k \in e.locals THEN e.scope[k] ELSE None])]]

\* SandboxEnv::pop: a local of the scope that ends gets the shadow's value
\* back, or is removed from locals and scope when the shadow has none; what
\* is left in the shadow is inserted into locals and scope.  Without a
\* shadow the locals are removed.
SandboxEnv_pop(e) ==
  IF e.stack # <<>>
  THEN LET shadow == Last(e.stack)
       IN  [scope |-> [k \in TKeys |->
                         IF shadow[k] # None THEN shadow[k]
                         ELSE IF k \in e.locals THEN None ELSE e.scope[k]],
            locals |-> {k \in TKeys : shadow[k] # None},
            stack |-> Front(e.stack)]
  ELSE [e EXCEPT !.scope = [k \in TKeys |-> IF k \in e.locals THEN None ELSE e.scope[k]],
                 !.locals = {}]

\* SandboxEnv::get
SandboxEnv_get(e, k) ==
  IF e.scope[k] # None THEN [ok |-> TRUE, val |-> e.scope[k], msg |-> ""]
  ELSE [ok |-> FALSE, val |-> Nil, msg |-> "symbol not in scope."]

\* SandboxEnv::set
SandboxEnv_set(e, key, val) ==
  IF key.tag = "Symbol"
  THEN [ok |-> TRUE, e |-> [e EXCEPT !.locals = @ \cup {key.id}, !.scope[key.id] = val]]
  ELSE [ok |-> FALSE, e |-> e]

\* SandboxEnv::set_global
SandboxEnv_set_global(e, key, val) ==
  IF key.tag = "Symbol"
  THEN [ok |-> TRUE, e |-> [e EXCEPT !.scope[key.id] = val]]
  ELSE [ok |-> FALSE, e |-> e]

(***************************************************************************)
(* The tree-walking Evaluator (eval.rs)                                    *)
(***************************************************************************)

\* ZapFn::new_fn
ZapFn_new_fn(args, ast) == [tag |-> "Fn", args |-> args, ast |-> ast]

\* Form: what the path holds
EList(list, idx, len) == [tag |-> "List", list |-> list, idx |-> idx, len |-> len]
EIf(list) == [tag |-> "If", list |-> list]
EDo(list, idx) == [tag |-> "Do", list |-> list, idx |-> idx]
EDefine == [tag |-> "Define"]
ELet(bindings, sym, idx) == [tag |-> "Let", bindings |-> bindings, sym |-> sym, idx |-> idx]
ECall(argc) == [tag |-> "Call", argc |-> argc]
EReturn == [tag |-> "Return"]

\* Evaluator::new
EvOff ==
  [path |-> <<>>, stack |-> <<>>, top |-> Nil, mode |-> "down", st |-> "off", msg |-> "",
   depth0 |-> 0, todo |-> <<>>]

\* eval returns Err(error(msg))
EvErr(t, e, msg) == [t |-> [t EXCEPT !.st = "err", !.msg = msg], e |-> e]

\* a panic inside eval
EvPanic(t, e, msg) == [t |-> [t EXCEPT !.st = "panic", !.msg = msg], e |-> e]

\* top = v, then continue (mode "down") or the inner loop (mode "up")
EvGo(t, e, v, mode) == [t |-> [t EXCEPT !.top = v, !.mode = mode], e |-> e]

\* Evaluator::is_in_tail
is_in_tail(t) == Len(t.path) > 1 /\ Last(t.path).tag = "Return"

\* Evaluator::push_quote_form
push_quote_form(t, e, list) ==
  CASE Len(list) = 2 -> EvGo(t, e, list[2], "up")
    [] Len(list) > 2 -> EvErr(t, e, "too many parameteres to quote")
    [] OTHER -> EvErr(t, e, "nothing to quote.")

\* Evaluator::push_let_form
push_let_form(t, e, list) ==
  IF Len(list) # 3 THEN EvErr(t, e, "'let' needs 2 expressions.")
  ELSE IF list[2].tag # "List" THEN EvErr(t, e, "'let bindings should be a list.'")
  ELSE LET bindings == list[2].items
       IN  IF Len(bindings) < 2
           THEN EvErr(t, e, "let must have at least one key and value to bind.")
           ELSE IF Len(bindings) % 2 = 1
           THEN EvErr(t, e, "let must have even number of keys and values to bind.")
           ELSE LET pr == IF ~is_in_tail(t) THEN SandboxEnv_push(e) ELSE [ok |-> TRUE, e |-> e]
                IN  IF ~pr.ok THEN EvPanic(t, e, "unwrap on None")
                    ELSE EvGo([t EXCEPT !.path = Append(@, ELet(bindings, 0, 0)),
                                        !.stack = Append(@, list[3])],
                              pr.e, bindings[1], "up")

\* Evaluator::push_define_form
push_define_form(t, e, list) ==
  CASE Len(list) = 3 ->
         IF list[2].tag = "Symbol"
         THEN EvGo([t EXCEPT !.path = Append(@, EDefine), !.stack = Append(@, list[2])],
                   e, list[3], "down")
         ELSE EvErr(t, e, "'define' first form must be a symbol")
    [] Len(list) > 3 -> EvErr(t, e, "'define' only need a symbol and an expression")
    [] OTHER -> EvErr(t, e, "'define' needs a symbol and an expression")

\* Evaluator::register_fn
register_fn(t, e, list) ==
  IF Len(list) # 3 THEN EvErr(t, e, "'fn' needs 2 forms: the parameters and a body.")
  ELSE IF list[2].tag # "List" THEN EvErr(t, e, "'fn' first form should be a list of symbols.")
  ELSE IF \E i \in 1..Len(list[2].items) : list[2].items[i].tag # "Symbol"
  THEN EvErr(t, e, "'fn': only symbols can be used as function arguments.")
  ELSE EvGo(t, e, ZapFn_new_fn([i \in 1..Len(list[2].items) |-> list[2].items[i].id], list[3]), "up")

\* eval, the head of the outer loop: match top.  The forms evaluated hold no
\* quasiquote, unquote or splice-unquote, so quasiquoted is false throughout.
eval_down(t, e) ==
  LET top == t.top
  IN  CASE top.tag = "List" ->
             LET list == top.items
                 len == Len(list)
             IN  IF len = 0 THEN EvGo(t, e, top, "up")
                 ELSE IF list[1].tag # "Symbol"
                 THEN EvGo([t EXCEPT !.path = Append(@, EList(list, 0, len))], e, list[1], "down")
                 ELSE CASE list[1] = sIf ->
                             IF len # 4 THEN EvErr(t, e, "an if form must contain 3 expressions.")
                             ELSE EvGo([t EXCEPT !.path = Append(@, EIf(list))], e, list[2], "down")
                        [] list[1] = sLet -> push_let_form(t, e, list)
                        [] list[1] = sDo ->
                             IF len = 1 THEN EvErr(t, e, "'do' forms needs at least one inner form")
                             ELSE EvGo([t EXCEPT !.path = Append(@, EDo(list, 1))], e, list[2], "down")
                        [] list[1] = sDef -> push_define_form(t, e, list)
                        [] list[1] = sQuote -> push_quote_form(t, e, list)
                        [] list[1] = sFn -> register_fn(t, e, list)
                        [] OTHER ->
                             LET g == SandboxEnv_get(e, list[1].id)
                             IN  IF ~g.ok THEN EvErr(t, e, g.msg)
                                 ELSE EvGo([t EXCEPT !.path = Append(@, EList(list, 0, len))], e, g.val, "up")
        [] top.tag = "Symbol" ->
             LET g == SandboxEnv_get(e, top.id)
             IN  IF ~g.ok THEN EvErr(t, e, g.msg) ELSE EvGo(t, e, g.val, "up")
        [] OTHER -> EvGo(t, e, top, "up")

\* for i in 0..args.len() { env.set(args[i], &params[i + 1])? }
RECURSIVE set_args(_, _, _, _)
set_args(e, args, params, i) ==
  IF i > Len(args) THEN e
  ELSE set_args(SandboxEnv_set(e, Sym(args[i]), params[i + 1]).e, args, params, i + 1)

\* eval, Form::Call(argc): the path has been popped
eval_call(t, e, argc) ==
  LET len == Len(t.stack)
      params == SubSeq(t.stack, len - argc + 1, len)
      f == params[1]
      cut == [t EXCEPT !.stack = Take(t.stack, len - argc)]
  IN  CASE f.tag = "FuncNative" ->
             LET r == NativeApply(f.name, Tail(params))
             IN  IF r.ok THEN EvGo(cut, e, r.val, "down") ELSE EvErr(t, e, r.msg)
        [] f.tag = "Fn" ->
             LET pr == IF ~is_in_tail(t) THEN SandboxEnv_push(e) ELSE [ok |-> TRUE, e |-> e]
                 t1 == IF ~is_in_tail(t) THEN [cut EXCEPT !.path = Append(@, EReturn)] ELSE cut
             IN  IF ~pr.ok THEN EvPanic(t, e, "unwrap on None")
                 ELSE IF Len(f.args) >= argc THEN EvPanic(t1, pr.e, "index out of bounds")
                 ELSE EvGo(t1, set_args(pr.e, f.args, params, 1), f.ast, "down")
        [] OTHER -> EvErr(t, e, "Only functions can be called.")

\* eval, Form::Let(bindings, sym, idx): the path has been popped
eval_let(t, e, form) ==
  LET bindings == form.bindings
      idx == form.idx
  IN  IF Len(bindings) <= idx
      THEN EvGo(t, IF ~is_in_tail(t) THEN SandboxEnv_pop(e) ELSE e, t.top, "up")
      ELSE IF idx % 2 = 0
      THEN IF t.top.tag = "Symbol"
           THEN EvGo([t EXCEPT !.path = Append(@, ELet(bindings, t.top.id, idx + 1))],
                     e, At(bindings, idx + 1), "down")
           ELSE EvErr(t, e, "let: Only symbols can be used for keys.")
      ELSE LET e1 == SandboxEnv_set(e, Sym(form.sym), t.top).e
               t1 == [t EXCEPT !.path = Append(@, ELet(bindings, form.sym, idx + 1))]
           IN  IF Len(bindings) > idx + 1
               THEN EvGo(t1, e1, At(bindings, idx + 1), "up")
               ELSE EvGo([t1 EXCEPT !.stack = Front(@)], e1, Last(t.stack), "down")

\* eval, the head of the inner loop: the path is popped
eval_up(t, e) ==
  IF t.path = <<>> THEN [t |-> [t EXCEPT !.st = "ok"], e |-> e]
  ELSE LET parent == Last(t.path)
           p == [t EXCEPT !.path = Front(@)]
       IN  CASE parent.tag = "List" ->
                  LET idx == parent.idx + 1
                      q == [p EXCEPT !.stack = Append(@, t.top)]
                  IN  IF Len(parent.list) > idx
                      THEN EvGo([q EXCEPT !.path = Append(@, EList(parent.list, idx, parent.len))],
                                e, At(parent.list, idx), "down")
                      ELSE EvGo([q EXCEPT !.path = Append(@, ECall(parent.len))], e, Nil, "up")
             [] parent.tag = "If" ->
                  EvGo(p, e, IF is_truthy(t.top) THEN parent.list[3] ELSE parent.list[4], "down")
             [] parent.tag = "Let" -> eval_let(p, e, parent)
             [] parent.tag = "Define" ->
                  LET r == SandboxEnv_set_global(e, Last(p.stack), t.top)
                  IN  IF r.ok THEN EvGo([p EXCEPT !.stack = Front(@)], r.e, t.top, "up")
                      ELSE EvErr([p EXCEPT !.stack = Front(@)], e, "Env set: only symbols can be used as keys.")
             [] parent.tag = "Do" ->
                  LET idx == parent.idx + 1
                  IN  IF idx >= Len(parent.list) THEN EvPanic(p, e, "index out of bounds")
                      ELSE IF Len(parent.list) > idx + 1
                      THEN EvGo([p EXCEPT !.path = Append(@, EDo(parent.list, idx))],
                                e, At(parent.list, idx), "down")
                      ELSE EvGo(p, e, At(parent.list, idx), "down")
             [] parent.tag = "Call" -> eval_call(p, e, parent.argc)
             [] OTHER -> EvGo(p, SandboxEnv_pop(e), t.top, "up")

\* RwLock::new
RwFree == [w |-> 0, r |-> {}]

LocksFree == [symbols |-> RwFree, shared_globals |-> RwFree]

HubStart ==
  /\ hub = SharedEnv_default.h
  /\ envs = [b \in LockConns |-> EnvNone]
  /\ hcall = NoCall
  /\ hist = DEFAULT_SYMBOLS
  /\ locks = LocksFree
  /\ sandbox = SandboxEnv_default
  /\ marks = <<>>
  /\ sbst = "ok"
  /\ ev = EvOff

\* No server is running during a session of one reader and one machine
HubOff == HubStart

ReaderStart ==
  [rd |-> Reader_new, env |-> EnvDefault, heap |-> 0, res |-> ReadNone, out |-> <<>>, fin |-> FALSE]

NoOp == Op0("None")

Machine ==
  [callframe |-> vm.callframe, stack |-> vm.stack, calls |-> vm.calls,
   env |-> env, heap |-> heap, st |-> status, res |-> result, op |-> op]

VmIdle == VmState_new(ChunkDefault)

Init ==
  /\ input \in Sessions
  /\ src = Nil
  /\ phase = "idle"
  /\ comp = Compiler_init(Nil, 0)
  /\ vm = VmIdle
  /\ env = EnvInit
  /\ env0 = EnvInit
  /\ heap = 0
  /\ status = "none"
  /\ result = Nil
  /\ op = NoOp
  /\ sent = <<>>
  /\ chunked = ReaderStart
  /\ whole = ReaderStart
  /\ eager = ReaderStart
  /\ rphase = "off"
  /\ HubOff

\* read_ast returned the next form; compile starts on it
Read ==
  /\ phase = "idle"
  /\ input # <<>>
  /\ LET r == Fresh(Head(input), heap)
     IN /\ comp' = Compiler_init(r.v, r.next)
        /\ heap' = r.next
  /\ src' = Head(input)
  /\ input' = Tail(input)
  /\ phase' = "compile"
  /\ vm' = VmIdle
  /\ status' = "none"
  /\ result' = Nil
  /\ op' = NoOp
  /\ UNCHANGED <<env, env0>>
  /\ UNCHANGED <<rvars, hvars>>

\* one form of the work stack of compile is processed
CompileForm ==
  /\ phase = "compile"
  /\ comp.st = "run"
  /\ comp.forms # <<>>
  /\ comp' = CompileStep(comp)
  /\ UNCHANGED <<input, src, phase, vm, env, env0, heap, status, result, op>>
  /\ UNCHANGED <<rvars, hvars>>

\* compile returned Err (the session goes on) or panicked (the process died)
CompileFail ==
  /\ phase = "compile"
  /\ comp.st # "run"
  /\ status' = (IF comp.st = "err" THEN "cerr" ELSE "panic")
  /\ result' = Str(comp.msg)
  /\ phase' = (IF comp.st = "err" THEN "idle" ELSE "dead")
  /\ UNCHANGED <<input, src, comp, vm, env, env0, heap, op>>
  /\ UNCHANGED <<rvars, hvars>>

\* compile returned Ok(chunk); run builds its VmState and reserves the locals
StartRun ==
  /\ phase = "compile"
  /\ comp.st = "run"
  /\ comp.forms = <<>>
  /\ vm' = VmState_new(Compiler_chunk(comp))
  /\ heap' = comp.heap
  /\ status' = "run"
  /\ phase' = "run"
  /\ env0' = env
  /\ UNCHANGED <<input, src, comp, env, result, op>>
  /\ UNCHANGED <<rvars, hvars>>

\* one iteration of the dispatch loop of run
RunStep ==
  /\ phase = "run"
  /\ status = "run"
  /\ \E g \in UBOutcomes :
       LET n == Dispatch(Machine, g)
       IN /\ vm' = [callframe |-> n.callframe, stack |-> n.stack, calls |-> n.calls]
          /\ env' = n.env
          /\ heap' = n.heap
          /\ status' = n.st
          /\ result' = n.res
          /\ op' = n.op
          /\ phase' = (CASE n.st = "run" -> "run"
                         [] n.st \in {"ok", "err"} -> "idle"
                         [] OTHER -> "dead")
  /\ UNCHANGED <<input, src, comp, env0>>
  /\ UNCHANGED <<rvars, hvars>>

Next == Read \/ CompileForm \/ CompileFail \/ StartRun \/ RunStep

Spec == Init /\ [][Next]_vars

(***************************************************************************)
(* The reader fed in pieces and at once: tokenize on every piece, then     *)
(* flush_token, then read_ast until it returns Ok(None).                   *)
(***************************************************************************)
MaxLen == 4

Alphabet == {"~", "@", "\"", "\\", ";", "\n", "n", "(", ")"}

InitReader ==
  /\ sent = <<>>
  /\ chunked = ReaderStart
  /\ whole = ReaderStart
  /\ eager = ReaderStart
  /\ rphase = "feed"
  /\ input = <<>>
  /\ src = Nil
  /\ phase = "off"
  /\ comp = Compiler_init(Nil, 0)
  /\ vm = VmIdle
  /\ env = EnvDefault
  /\ env0 = EnvDefault
  /\ heap = 0
  /\ status = "none"
  /\ result = Nil
  /\ op = NoOp
  /\ HubOff

\* tokenize is called with the next piece of the text
Send ==
  /\ rphase = "feed"
  /\ \E k \in 1..(MaxLen - Len(sent)) :
       \E chunk \in [1..k -> Alphabet] :
         /\ chunked' = [chunked EXCEPT !.rd = tokenize(chunked.rd, chunk)]
         /\ sent' = sent \o chunk
  /\ UNCHANGED <<whole, eager, rphase>>
  /\ UNCHANGED <<svars, hvars>>

\* the text ended: flush_token; the other reader gets the text in one call
\* of tokenize and its flush_token
Flush ==
  /\ rphase = "feed"
  /\ chunked' = [chunked EXCEPT !.rd = flush_token(chunked.rd)]
  /\ whole' = [whole EXCEPT !.rd = flush_token(tokenize(Reader_new, sent))]
  /\ rphase' = "read"
  /\ UNCHANGED <<sent, eager>>
  /\ UNCHANGED <<svars, hvars>>

\* one call of read_ast, unless it has already returned Ok(None)
ReadCall(s) ==
  IF s.fin THEN s
  ELSE LET n == read_ast(s)
       IN [n EXCEPT !.out = Append(s.out, n.res), !.fin = (n.res.r = "None")]

\* read_ast is called on both readers
ReadAst ==
  /\ rphase = "read"
  /\ chunked' = ReadCall(chunked)
  /\ whole' = ReadCall(whole)
  /\ rphase' = (IF ReadCall(chunked).fin /\ ReadCall(whole).fin THEN "done" ELSE "read")
  /\ UNCHANGED <<sent, eager>>
  /\ UNCHANGED <<svars, hvars>>

NextReader == Send \/ Flush \/ ReadAst

SpecReader == InitReader /\ [][NextReader]_vars

(***************************************************************************)
(* A value printed and read back: pr_str, then tokenize and flush_token on *)
(* the printed text, then read_ast until it returns Ok(None).  src is the  *)
(* value, sent the printed text, whole the reader that reads it back.      *)
(***************************************************************************)
MaxStr == 2

StrAlphabet == {"a", "n", "\"", "\\", "\n"}

\* the strings of up to MaxStr characters
PrintStrings == {Str(Text(cs)) : cs \in UNION {[1..k -> StrAlphabet] : k \in 0..MaxStr}}

PrintAtoms == {Nil, Bool(TRUE), Bool(FALSE), S("x"), S("gg"), sPlus}

PrintItems == PrintAtoms \cup {Str("a"), Str("\""), Str("\n"), L(<<>>), L(<<S("x"), Str("\\")>>)}

\* the values: atoms, strings, and lists of up to two items
PrintVals ==
  PrintAtoms \cup PrintStrings
  \cup {L(<<>>)} \cup {L(<<a>>) : a \in PrintItems} \cup {L(<<a, b>>) : a \in PrintItems, b \in PrintItems}

InitPrint ==
  /\ src \in PrintVals
  /\ sent = <<>>
  /\ chunked = ReaderStart
  /\ whole = [ReaderStart EXCEPT !.env = EnvInit]
  /\ eager = ReaderStart
  /\ rphase = "print"
  /\ input = <<>>
  /\ phase = "off"
  /\ comp = Compiler_init(Nil, 0)
  /\ vm = VmIdle
  /\ env = EnvInit
  /\ env0 = EnvInit
  /\ heap = 0
  /\ status = "none"
  /\ result = Nil
  /\ op = NoOp
  /\ HubOff

\* the value is printed
PrintValue ==
  /\ rphase = "print"
  /\ sent' = pr_str(src, whole.env)
  /\ rphase' = "tokenize"
  /\ UNCHANGED <<chunked, whole, eager>>
  /\ UNCHANGED <<svars, hvars>>

\* the printed text is given to tokenize, then flush_token
TokenizePrinted ==
  /\ rphase = "tokenize"
  /\ whole' = [whole EXCEPT !.rd = flush_token(tokenize(whole.rd, sent))]
  /\ rphase' = "reread"
  /\ UNCHANGED <<sent, chunked, eager>>
  /\ UNCHANGED <<svars, hvars>>

\* one call of read_ast on the tokens of the printed text
ReadPrinted ==
  /\ rphase = "reread"
  /\ whole' = ReadCall(whole)
  /\ rphase' = (IF ReadCall(whole).fin THEN "reread-done" ELSE "reread")
  /\ UNCHANGED <<sent, chunked, eager>>
  /\ UNCHANGED <<svars, hvars>>

NextPrint == PrintValue \/ TokenizePrinted \/ ReadPrinted

SpecPrint == InitPrint /\ [][NextPrint]_vars

(***************************************************************************)
(* Restartable reading: the pieces of a text go to tokenize one after the  *)
(* other; on eager read_ast is called between the calls of tokenize (the   *)
(* loop of repl.rs), on chunked only after the text has ended (run_exp of  *)
(* lib.rs).                                                                *)
(***************************************************************************)
MaxText == 4

MaxPiece == 2

TextAlphabet == {"(", ")", "n", "'", BACKQUOTE, "~", "@"}

InitRestart ==
  /\ sent = <<>>
  /\ chunked = ReaderStart
  /\ whole = ReaderStart
  /\ eager = ReaderStart
  /\ rphase = "pieces"
  /\ input = <<>>
  /\ src = Nil
  /\ phase = "off"
  /\ comp = Compiler_init(Nil, 0)
  /\ vm = VmIdle
  /\ env = EnvDefault
  /\ env0 = EnvDefault
  /\ heap = 0
  /\ status = "none"
  /\ result = Nil
  /\ op = NoOp
  /\ HubOff

\* tokenize is called with the next piece, on both readers
SendPiece ==
  /\ rphase = "pieces"
  /\ \E k \in 1..MaxPiece :
       /\ Len(sent) + k <= MaxText
       /\ \E piece \in [1..k -> TextAlphabet] :
            /\ chunked' = [chunked EXCEPT !.rd = tokenize(chunked.rd, piece)]
            /\ eager' = [eager EXCEPT !.rd = tokenize(eager.rd, piece)]
            /\ sent' = sent \o piece
  /\ UNCHANGED <<whole, rphase>>
  /\ UNCHANGED <<svars, hvars>>

\* one call of read_ast between two calls of tokenize: a value or an error
\* is handed on, Ok(None) makes the loop wait for more text
ReadEarly(s) ==
  LET n == read_ast(s)
  IN IF n.res.r = "None" THEN n ELSE [n EXCEPT !.out = Append(s.out, n.res)]

ReadBetween ==
  /\ rphase = "pieces"
  /\ eager' = ReadEarly(eager)
  /\ UNCHANGED <<sent, chunked, whole, rphase>>
  /\ UNCHANGED <<svars, hvars>>

\* the text ended: flush_token on both readers
EndOfText ==
  /\ rphase = "pieces"
  /\ chunked' = [chunked EXCEPT !.rd = flush_token(chunked.rd)]
  /\ eager' = [eager EXCEPT !.rd = flush_token(eager.rd)]
  /\ rphase' = "rest"
  /\ UNCHANGED <<sent, whole>>
  /\ UNCHANGED <<svars, hvars>>

\* read_ast is called on both readers until it has returned Ok(None)
ReadRest ==
  /\ rphase = "rest"
  /\ chunked' = ReadCall(chunked)
  /\ eager' = ReadCall(eager)
  /\ rphase' = (IF ReadCall(chunked).fin /\ ReadCall(eager).fin THEN "all-read" ELSE "rest")
  /\ UNCHANGED <<sent, whole>>
  /\ UNCHANGED <<svars, hvars>>

NextRestart == SendPiece \/ ReadBetween \/ EndOfText \/ ReadRest

SpecRestart == InitRestart /\ [][NextRestart]_vars

(***************************************************************************)
(* The server: main clones the SharedEnv for every connection and each     *)
(* session calls reg_symbol (its reader), set and get_by_id (its machine)  *)
(* on its clone, concurrently with the other sessions (main.rs, repl.rs).  *)
(***************************************************************************)
HubTexts == {"x", "y"}

\* The texts whose symbols the sessions define and look up
HubDefined == {"x"}

HubVals == {Number(1), Number(2)}

InitHub ==
  /\ HubStart
  /\ input = <<>>
  /\ src = Nil
  /\ phase = "off"
  /\ comp = Compiler_init(Nil, 0)
  /\ vm = VmIdle
  /\ env = EnvInit
  /\ env0 = EnvInit
  /\ heap = 0
  /\ status = "none"
  /\ result = Nil
  /\ op = NoOp
  /\ sent = <<>>
  /\ chunked = ReaderStart
  /\ whole = ReaderStart
  /\ eager = ReaderStart
  /\ rphase = "off"

\* The ids given to set and get_by_id: those of the texts of HubDefined the
\* table knows.  reg_symbol returns the id of a known text to any session
\* that asks, and changes nothing when it does.
HubIds == {hub.symbols[s] : s \in HubDefined \cap DOMAIN hub.symbols}

\* An out-of-bounds unchecked access that crashed ends the whole process
ServerUp == \A b \in Conns : envs[b].st # "ub"

\* The pairs of w with the one of id replaced by [id, val]
Written(w, id, val) == {e \in w : e.id # id} \cup {[id |-> id, val |-> val]}

\* main: a connection is accepted and the environment cloned for it
Clone(b) ==
  /\ ServerUp
  /\ envs[b].st = "none"
  /\ \A a \in Conns : a < b => envs[a].st # "none"
  /\ envs' = [envs EXCEPT ![b].st = "idle", ![b].globals = SharedEnv_clone(hub)]
  /\ hcall' = [NoCall EXCEPT !.who = b, !.call = "clone", !.r = "ok"]
  /\ UNCHANGED <<hub, hist>>

\* Session b interns the text s
RegSymbol(b, s) ==
  /\ ServerUp
  /\ envs[b].st = "idle"
  /\ LET r == SharedEnv_reg_symbol(hub, envs[b].globals, s)
     IN  /\ hub' = r.h
         /\ envs' = [envs EXCEPT ![b].globals = r.globals]
         /\ hcall' = [NoCall EXCEPT !.who = b, !.call = "reg_symbol", !.id = r.id, !.r = "ok"]
         /\ hist' = IF s \in DOMAIN hub.symbols THEN hist ELSE Append(hist, s)

\* Session b calls set(Symbol(id), val): the first statement
SetShared(b, id, val) ==
  /\ ServerUp
  /\ envs[b].st = "idle"
  /\ id \in HubIds
  /\ LET r == SharedEnv_set_shared(hub, id, val)
     IN  /\ hub' = r.h
         /\ envs' = [envs EXCEPT ![b].st = IF r.ok THEN "set" ELSE "panic",
                                 ![b].pend = [NoCall EXCEPT !.who = b, !.call = "set", !.id = id, !.val = val]]
         /\ hcall' = [NoCall EXCEPT !.who = b, !.call = "set", !.id = id, !.val = val,
                                     !.r = IF r.ok THEN "pending" ELSE "panic"]
  /\ UNCHANGED hist

\* The second statement of set, and its return
SetLocal(b) ==
  /\ ServerUp
  /\ envs[b].st = "set"
  /\ LET id == envs[b].pend.id
         val == envs[b].pend.val
         r == SharedEnv_set_local(envs[b].globals, id, val)
     IN  /\ envs' = [envs EXCEPT ![b].st = IF r.ok THEN "idle" ELSE "panic",
                                 ![b].globals = r.globals,
                                 ![b].pend = NoCall,
                                 ![b].wrote = IF r.ok THEN Written(@, id, val) ELSE @]
         /\ hcall' = [envs[b].pend EXCEPT !.r = IF r.ok THEN "ok" ELSE "panic"]
  /\ UNCHANGED <<hub, hist>>

\* Session b calls get_by_id(id)
GetById(b, id) ==
  /\ ServerUp
  /\ envs[b].st = "idle"
  /\ id \in HubIds
  /\ \E g \in UBOutcomes :
       LET r == SharedEnv_get_by_id(hub, envs[b].globals, id, g)
       IN  /\ envs' = [envs EXCEPT ![b].st = IF r.r = "ub" THEN "ub" ELSE @]
           /\ hcall' = [NoCall EXCEPT !.who = b, !.call = "get_by_id", !.id = id, !.r = r.r, !.val = r.val]
  /\ UNCHANGED <<hub, hist>>

Accept == \E b \in Conns : Clone(b) /\ UNCHANGED <<svars, rvars, locks, tvars>>

Intern == \E b \in Conns, s \in HubTexts : RegSymbol(b, s) /\ UNCHANGED <<svars, rvars, locks, tvars>>

SetFirst == \E b \in Conns, id \in HubIds, val \in HubVals :
              SetShared(b, id, val) /\ UNCHANGED <<svars, rvars, locks, tvars>>

SetSecond == \E b \in Conns : SetLocal(b) /\ UNCHANGED <<svars, rvars, locks, tvars>>

Get == \E b \in Conns, id \in HubIds :
         GetById(b, id) /\ UNCHANGED <<svars, rvars, locks, tvars>>

NextHub == Accept \/ Intern \/ SetFirst \/ SetSecond \/ Get

SpecHub == InitHub /\ [][NextHub]_vars

\* The ids the texts of HubTexts can get
UserIds == Len(DEFAULT_SYMBOLS)..(Len(DEFAULT_SYMBOLS) + Cardinality(HubTexts) - 1)

GetOf(b, id) == GetById(b, id) /\ UNCHANGED <<svars, rvars, locks, tvars>>

\* The runtime runs every task that is ready (main.rs, multi_thread): a set
\* that wrote the shared slot goes on to its second statement, and a session
\* that keeps looking a symbol up gets its lookup run.
SpecHubFair ==
  /\ SpecHub
  /\ WF_vars(SetSecond)
  /\ \A b \in Conns, id \in UserIds : WF_vars(GetOf(b, id))

(***************************************************************************)
(* A SandboxEnv on its own: an embedding program calls set_global, push,   *)
(* set and pop.  set_global is called outside of every scope, and scopes   *)
(* nest up to MaxDepth.                                                    *)
(***************************************************************************)

MaxDepth == 2

SbKeys == {Sym(S("x").id), Sym(S("y").id), Number(1)}

SbVals == {Number(1), Number(2)}

SbPush ==
  /\ sbst = "ok"
  /\ Len(sandbox.stack) < MaxDepth
  /\ LET r == SandboxEnv_push(sandbox)
     IN  /\ sandbox' = r.e
         /\ sbst' = IF r.ok THEN "ok" ELSE "panic"
         /\ marks' = IF r.ok THEN Append(marks, sandbox.scope) ELSE marks
  /\ UNCHANGED <<svars, rvars, hub, envs, hcall, hist, locks, ev>>

SbPop ==
  /\ sbst = "ok"
  /\ sandbox' = SandboxEnv_pop(sandbox)
  /\ marks' = IF marks = <<>> THEN marks ELSE Front(marks)
  /\ UNCHANGED <<svars, rvars, hub, envs, hcall, hist, locks, sbst, ev>>

SbSet ==
  /\ sbst = "ok"
  /\ \E key \in SbKeys, val \in SbVals :
       sandbox' = SandboxEnv_set(sandbox, key, val).e
  /\ UNCHANGED <<svars, rvars, hub, envs, hcall, hist, locks, marks, sbst, ev>>

SbSetGlobal ==
  /\ sbst = "ok"
  /\ sandbox.stack = <<>>
  /\ \E key \in SbKeys, val \in SbVals :
       sandbox' = SandboxEnv_set_global(sandbox, key, val).e
  /\ UNCHANGED <<svars, rvars, hub, envs, hcall, hist, locks, marks, sbst, ev>>

NextSandbox == SbPush \/ SbPop \/ SbSet \/ SbSetGlobal

SpecSandbox == InitHub /\ [][NextSandbox]_vars

(***************************************************************************)
(* A REPL over the tree-walking Evaluator: the evaluator is made with an   *)
(* environment in which zap-core's add is registered for n, and evaluates  *)
(* the forms of a session one after the other, whatever the last answered. *)
(***************************************************************************)

TX == Sym(S("x").id)
TY == Sym(S("y").id)
TF == Sym(S("f").id)
TN == Sym(S("n").id)

\* (let (x 1) body)
TLet(body) == L(<<sLet, L(<<TX, Number(1)>>), body>>)
\* ((fn (x) body) 1)
TCall(body) == L(<<L(<<sFn, L(<<TX>>), body>>), Number(1)>>)
\* (do (define f (fn (x) (if x (f nil) (let (y 2) y)))) (f 1)): a call and a
\* let in tail position
TTail ==
  L(<<sDo,
      L(<<sDef, TF, L(<<sFn, L(<<TX>>), L(<<sIf, TX, L(<<TF, Nil>>), L(<<sLet, L(<<TY, Number(2)>>), TY>>)>>)>>)>>),
      L(<<TF, Number(1)>>)>>)

EvSessions ==
  {<<TLet(TX), TX>>, <<TLet(TY), TX>>, <<TCall(TX), TX>>, <<TCall(TY), TX>>,
   <<TLet(L(<<TN, TX, Number(2)>>))>>, <<TLet(L(<<TN, TX, Str("a")>>)), TX>>,
   <<TLet(TCall(TLet(TX)))>>, <<TCall(TLet(Number(3))), TX>>,
   <<TTail, TX>>, <<L(<<sDo, Number(1)>>)>>, <<L(<<sQuote, TX>>)>>,
   <<L(<<sLet, L(<<TX>>), TX>>)>>, <<L(<<sLet, L(<<Number(1), Number(2)>>), Number(3)>>), TX>>,
   <<L(<<sDef, TX, TCall(TY)>>), TX>>}

\* zap_core::load on SandboxEnv::default
EvEnv == [SandboxEnv_default EXCEPT !.scope[TN.id] = FuncNative("+")]

\* Evaluator::new(env), and the forms a client is going to send
EvNew ==
  /\ ev.st = "off"
  /\ \E sess \in EvSessions : ev' = [EvOff EXCEPT !.st = "idle", !.todo = sess]
  /\ sandbox' = EvEnv
  /\ UNCHANGED <<svars, rvars, hub, envs, hcall, hist, locks, marks, sbst>>

\* eval(root) is called: path and stack are cleared
EvStart ==
  /\ ev.st \in {"idle", "ok", "err"}
  /\ ev.todo # <<>>
  /\ ev' = [ev EXCEPT !.path = <<>>, !.stack = <<>>, !.top = Head(ev.todo), !.mode = "down",
                      !.st = "run", !.msg = "", !.depth0 = Len(sandbox.stack), !.todo = Tail(@)]
  /\ UNCHANGED <<svars, rvars, hub, envs, hcall, hist, locks, sandbox, marks, sbst>>

\* one turn of eval's outer loop
EvDown ==
  /\ ev.st = "run"
  /\ ev.mode = "down"
  /\ ev' = eval_down(ev, sandbox).t
  /\ sandbox' = eval_down(ev, sandbox).e
  /\ UNCHANGED <<svars, rvars, hub, envs, hcall, hist, locks, marks, sbst>>

\* one turn of eval's inner loop
EvUp ==
  /\ ev.st = "run"
  /\ ev.mode = "up"
  /\ ev' = eval_up(ev, sandbox).t
  /\ sandbox' = eval_up(ev, sandbox).e
  /\ UNCHANGED <<svars, rvars, hub, envs, hcall, hist, locks, marks, sbst>>

NextEval == EvNew \/ EvStart \/ EvDown \/ EvUp

SpecEval == InitHub /\ [][NextEval]_vars

(***************************************************************************)
(* The hub with its locks: every call of a session is a sequence of steps  *)
(* that acquire and release the two RwLocks; the sessions' steps           *)
(* interleave.  envs[b].st is "busy" during a call and envs[b].pend the    *)
(* call, with the number pos of steps it has taken and the text s given to *)
(* reg_symbol.  The clone made for session b counts as a call of b.        *)
(***************************************************************************)

LockCall(b, name, id, val, text) ==
  [who |-> b, call |-> name, id |-> id, r |-> "pending", val |-> val, pos |-> 0, s |-> text]

\* the step the call of session b takes after pos steps
StepAt(b, pos) ==
  LET c == envs[b].pend
  IN  CASE c.call = "reg_symbol" -> reg_symbol_locks(pos, c.s \in DOMAIN hub.symbols)
        [] c.call = "set" -> set_locks(pos)
        [] c.call = "clone" -> clone_locks(pos)
        [] c.call = "get_symbol" -> get_symbol_locks(pos)
        [] c.call = "get_by_id" -> get_by_id_locks(pos, At(envs[b].globals, c.id) # None)
        [] OTHER -> Done

\* the step the call of session b takes next
LockStep(b) == StepAt(b, envs[b].pend.pos)

Busy(b) == envs[b].st = "busy"

\* main accepts the connection of session b and starts to clone the
\* environment for it
StartClone(b) ==
  /\ envs[b].st = "none"
  /\ \A a \in LockConns : a < b => envs[a].st # "none" /\ ~(Busy(a) /\ envs[a].pend.call = "clone")
  /\ envs' = [envs EXCEPT ![b].st = "busy", ![b].pend = LockCall(b, "clone", 0, Nil, "")]
  /\ UNCHANGED <<hub, hcall, hist, locks>>

\* session b calls reg_symbol(s), set(id, val), get_by_id(id) or
\* get_symbol(id).  A get_by_id of a bound symbol takes no lock and changes
\* nothing: it is no step here.
StartCall(b, c) ==
  /\ envs[b].st = "idle"
  /\ c.call \in {"get_by_id", "get_symbol"} => c.id < Len(envs[b].globals)
  /\ c.call = "get_by_id" => At(envs[b].globals, c.id) = None
  /\ c.call = "set" => c.id < Len(hub.shared_globals)
  /\ envs' = [envs EXCEPT ![b].st = "busy", ![b].pend = c]
  /\ UNCHANGED <<hub, hcall, hist, locks>>

\* the call of session b gets the lock it waits for
Acquire(b) ==
  /\ Busy(b)
  /\ LockStep(b).act = "acq"
  /\ rw_available(locks[LockStep(b).lock], LockStep(b).mode)
  /\ locks' = [locks EXCEPT ![LockStep(b).lock] = rw_acquire(@, LockStep(b).mode, b)]
  /\ envs' = [envs EXCEPT ![b].pend.pos = @ + 1]
  /\ UNCHANGED <<hub, hcall, hist>>

\* the call of session b returns; set writes the session's own slot first
CallReturned(es, b) ==
  LET c == es[b].pend
      r == SharedEnv_set_local(es[b].globals, c.id, c.val)
  IN  IF c.call = "set"
      THEN [es EXCEPT ![b].st = IF r.ok THEN "idle" ELSE "panic",
                      ![b].globals = r.globals,
                      ![b].pend = NoCall]
      ELSE [es EXCEPT ![b].st = "idle", ![b].pend = NoCall]

\* the call of session b has done what it holds the lock for and drops the
\* guard: reg_symbol has interned the text, set has written the shared slot,
\* clone has copied shared_globals.  What follows the last guard of a call is
\* local to the session: the call returns in the same step.
Release(b) ==
  /\ Busy(b)
  /\ LockStep(b).act = "rel"
  /\ locks' = [locks EXCEPT ![LockStep(b).lock] = rw_release(@, b)]
  /\ LET c == envs[b].pend
         lock == LockStep(b).lock
         r == SharedEnv_reg_symbol(hub, envs[b].globals, c.s)
         after == CASE c.call = "reg_symbol" /\ lock = "symbols" ->
                         [envs EXCEPT ![b].globals = r.globals, ![b].pend.id = r.id, ![b].pend.pos = @ + 1]
                    [] c.call = "clone" ->
                         [envs EXCEPT ![b].globals = SharedEnv_clone(hub), ![b].pend.pos = @ + 1]
                    [] OTHER -> [envs EXCEPT ![b].pend.pos = @ + 1]
     IN  /\ hub' = CASE c.call = "reg_symbol" /\ lock = "symbols" -> r.h
                     [] c.call = "set" /\ lock = "shared_globals" -> SharedEnv_set_shared(hub, c.id, c.val).h
                     [] OTHER -> hub
         /\ hist' = IF c.call = "reg_symbol" /\ lock = "symbols" /\ c.s \notin DOMAIN hub.symbols
                    THEN Append(hist, c.s) ELSE hist
         /\ envs' = IF StepAt(b, c.pos + 1).act = "done" THEN CallReturned(after, b) ELSE after
  /\ UNCHANGED hcall

LockCalls(b) ==
  {LockCall(b, "reg_symbol", 0, Nil, t) : t \in HubDefined}
  \cup {LockCall(b, "set", id, Number(1), "") : id \in {Len(DEFAULT_SYMBOLS)}}
  \cup {LockCall(b, "get_by_id", id, Nil, "") : id \in {Len(DEFAULT_SYMBOLS)}}
  \cup {LockCall(b, "get_symbol", id, Nil, "") : id \in {0}}

Connect == \E b \in LockConns : StartClone(b) /\ UNCHANGED <<svars, rvars, tvars>>

Call == \E b \in LockConns : \E c \in LockCalls(b) : StartCall(b, c) /\ UNCHANGED <<svars, rvars, tvars>>

AcquireOf(b) == Acquire(b) /\ UNCHANGED <<svars, rvars, tvars>>

ProceedOf(b) == Release(b) /\ UNCHANGED <<svars, rvars, tvars>>

Lock == \E b \in LockConns : AcquireOf(b)

Unlock == \E b \in LockConns : Release(b) /\ UNCHANGED <<svars, rvars, tvars>>

NextLocks == Connect \/ Call \/ Lock \/ Unlock

SpecLocks == InitHub /\ [][NextLocks]_vars

\* A thread that does not wait for a lock keeps running (main.rs,
\* multi_thread) and reaches the end of its guard's scope; a lock that is
\* free again and again is given to the thread that waits for it.
SpecLocksFair ==
  /\ SpecLocks
  /\ \A b \in LockConns : WF_vars(ProceedOf(b))
  /\ \A b \in LockConns : SF_vars(AcquireOf(b))

(***************************************************************************)
(* Properties                                                              *)
(***************************************************************************)
\* the form of src was compiled (or not) and run to its end
Finished == phase \in {"idle", "dead"} /\ status # "none"
\* run returned Ok or Err for the form of src
Returned == phase = "idle" /\ status \in {"ok", "err"}
\* this step is an iteration of run that executed the op named name
Ran(name) == phase = "run" /\ status = "run" /\ op'.op = name

\* C1: the pieces of a text given to tokenize in order, then flush_token,
\* yield the same sequence of read_ast results as the whole text given to
\* tokenize in one call, then flush_token.
C1_ChunkInvariance == rphase = "done" => chunked.out = whole.out

\* C2: a function applied to arguments binds its parameters to them:
\* ((fn (x) x) v) yields v when called by Tailcall, by Call and inside a
\* function, and ((fn (x y) y) 1 v) yields v.
C2_ApplyBindsParams ==
  \A v \in ArgVals :
    (Finished /\ src \in {CallIdTail(v), CallIdCall(v), CallIdDeep(v), CallSnd(v)})
      => (status = "ok" /\ result = v)

\* the Func built by this step holds, for every outer of the Closure it was
\* built from, the local at outer.position of the activation that ran the op
CapturedFromFrame ==
  LET clo == Last(vm.stack)
      fn == Last(vm'.stack)
  IN \A i \in 1..Len(clo.outers) :
       LET o == clo.outers[i]
       IN /\ vm.callframe.ret + o.position < Len(vm.stack) - 1
          /\ At(fn.locals, o.dest) = At(vm.stack, vm.callframe.ret + o.position)

\* the value the closure forms are to yield
ClosureFormValue(p) ==
  CASE p = Scenario6 -> Number(4)
    [] p = EvalClosure -> Number(5)
    [] OTHER -> CHOOSE v \in ArgVals : p = LetFnSees(v)

\* C3: when the Closure op runs in the activation that owns the captured
\* locals, every outer copies the current value of that local into
\* locals[dest]; the function returned by ((fn (x) (fn () x)) 4) yields 4 when
\* called, and a function defined in a let sees the let-bound value.
C3_ClosureCapture ==
  [][/\ (Ran("Closure") /\ status' = "run" /\ src \in DirectCaptureForms) => CapturedFromFrame
     /\ (Finished' /\ src' \in {Scenario6, EvalClosure} \cup {LetFnSees(v) : v \in ArgVals})
          => (status' = "ok" /\ result' = ClosureFormValue(src'))]_vars

\* this step executed Tailcall on a compiled function and entered it
TailcallEntered ==
  /\ Ran("Tailcall")
  /\ status' = "run"
  /\ op'.a <= Len(vm.stack)
  /\ At(vm.stack, Len(vm.stack) - op'.a).tag = "Func"

\* the function f of the counted loop is at the start of an iteration
IterationStart ==
  /\ src = CallCount
  /\ phase = "run"
  /\ status = "run"
  /\ op.op = "Tailcall"
  /\ vm.callframe.pc = 0

\* C4: Tailcall on a compiled function saves no call frame, keeps
\* callframe.ret, and leaves a stack of ret + callee.scope_size slots; every
\* iteration of a self-tail-recursive function starts with the same call
\* depth and the same stack length.
C4_TailcallBounded ==
  [][/\ TailcallEntered =>
          LET callee == At(vm.stack, Len(vm.stack) - op'.a)
          IN /\ vm'.calls = vm.calls
             /\ vm'.callframe.ret = vm.callframe.ret
             /\ Len(vm'.stack) = vm.callframe.ret + callee.chunk.scope_size
     /\ IterationStart => (Len(vm.calls) = 0 /\ Len(vm.stack) = 1)]_vars

\* the third iteration of the counted loop starts: x is 2
C4_Witness == IterationStart /\ vm.stack = <<Number(2)>>

\* Tailcall(a) replaced by Call(a); the compiler emits a Return right after
\* every Tailcall, so the replaced op is followed by Return
NoTailOps(ops) ==
  [i \in 1..Len(ops) |-> IF ops[i].op = "Tailcall" THEN Op1("Call", ops[i].a) ELSE ops[i]]

RECURSIVE NoTailV(_)
NoTailChunk(chunk) ==
  [ops |-> NoTailOps(chunk.ops),
   consts |-> [i \in 1..Len(chunk.consts) |-> NoTailV(chunk.consts[i])],
   scope_size |-> chunk.scope_size]
NoTailV(v) ==
  CASE v.tag = "Func" ->
         Func(v.ptr, [i \in 1..Len(v.locals) |-> NoTailV(v.locals[i])], NoTailChunk(v.chunk))
    [] v.tag = "Closure" -> ClosureV(v.outers, NoTailChunk(v.chunk))
    [] OTHER -> v

NoTailEnv(e) ==
  [e EXCEPT !.globals = [i \in 1..Len(e.globals) |-> NoTailV(e.globals[i])]]

\* every Tailcall of the chunk, and of the functions among its constants, is
\* followed by Return
RECURSIVE TailcallsReturn(_)
TailcallsReturn(chunk) ==
  /\ \A i \in 1..Len(chunk.ops) :
       chunk.ops[i].op = "Tailcall" => (i < Len(chunk.ops) /\ chunk.ops[i + 1].op = "Return")
  /\ \A i \in 1..Len(chunk.consts) :
       chunk.consts[i].tag \in {"Func", "Closure"} => TailcallsReturn(chunk.consts[i].chunk)

\* run of the compiled chunk with every Tailcall replaced, from the
\* environment the run of src started with
NoTailRun == run(NoTailChunk(Compiler_chunk(comp)), NoTailEnv(env0), comp.heap, "crash")

\* C5: the program with every Tailcall(a) replaced by Call(a) followed by
\* Return yields the same final value or the same error.
C5_TailEquivalence ==
  (Returned /\ TailcallsReturn(Compiler_chunk(comp)) /\ NoTailRun.st \in {"ok", "err"})
    => (status = NoTailRun.st /\ NoTailV(result) = NoTailRun.res)

\* C6: compile returns Ok or Err and run returns Ok or Err: no input ends
\* the process with an index out of range, a slice out of range or an unwrap
\* on None.
C6_NoPanics == status \notin {"panic", "ub"}

\* C7: (= a b) yields true exactly when the values of a and b are equal, for
\* two constants, for one constant and one symbol, and for two symbols.
C7_EqualAllShapes ==
  \A a \in EqVals, b \in EqVals :
    (Finished /\ src \in {EqKK(a, b), EqSK(a, b), EqKS(a, b), EqSS(a, b)})
      => (status = "ok" /\ result = Bool(a = b))

\* the value of x (or y) in the global slots
GlobalOf(e, text) == At(e.globals, reg_symbol_id(e, text))

\* C8: (if c t e) evaluates t when c is neither Nil nor Bool(false) and e
\* otherwise, evaluates only that branch and yields its value, in tail
\* position (Return after the then-branch) and elsewhere (Jmp over the
\* else-branch).
C8_IfTruthiness ==
  \A c \in CondVals :
    LET then == ~(c = Nil \/ c = Bool(FALSE))
    IN /\ (Finished /\ src \in {IfTail(c), IfJmp(c), IfSym(c), IfInFn(c)})
            => (status = "ok" /\ result = (IF then THEN Number(10) ELSE Number(20)))
       /\ (Finished /\ src = IfDef(c))
            => /\ status = "ok"
               /\ result = Number(3)
               /\ GlobalOf(env, "x") = (IF then THEN Number(1) ELSE None)
               /\ GlobalOf(env, "y") = (IF then THEN None ELSE Number(2))

\* (+ (if 0 10 20) 0) took the then-branch and jumped over the else-branch
C8_Witness ==
  /\ Finished
  /\ src = IfJmp(Number(0))
  /\ result = Number(10)
  /\ \E i \in 1..Len(comp.chunk.ops) : comp.chunk.ops[i].op = "Jmp"

\* the Func values held by the stack and the global slots
FuncsOf(stack, e) ==
  {stack[i] : i \in {j \in 1..Len(stack) : stack[j].tag = "Func"}}
  \cup {e.globals[i] : i \in {j \in 1..Len(e.globals) : e.globals[j].tag = "Func"}}

\* C9: once Closure has built a Func, no later step (a Store into the slot
\* a capture came from included) changes the captures the Func holds, and
\* the Func called after that slot was reused or shadowed still yields the
\* captured value.
C9_ClosureSnapshot ==
  [][/\ \A f \in FuncsOf(vm.stack, env), h \in FuncsOf(vm'.stack, env') :
          f.ptr = h.ptr => f.locals = h.locals
     /\ (Finished' /\ src' \in SnapForms) => (status' = "ok" /\ result' = Number(2))]_vars

\* f captured n = 2, slot 0 was reused for y = 5, and (nil f) yielded 2
C9_Witness ==
  /\ Finished
  /\ src = SnapReuse
  /\ status = "ok"
  /\ result = Number(2)
  /\ GlobalOf(env, "f").tag = "Func"
  /\ GlobalOf(env, "f").locals = <<Number(2)>>

\* C10: a run that returns Err leaves the global slots as they were before
\* the run but for the bindings of the Define ops it executed: only a Define
\* op changes a slot, the slot of its symbol, and the failing op changes
\* none; the next run starts from the locals of its own chunk alone and no
\* saved call frame.
C10_ErrorAbortsRun ==
  [][/\ env' # env =>
          /\ Ran("Define")
          /\ Len(vm.stack) >= 2
          /\ vm.stack[Len(vm.stack) - 1].tag = "Symbol"
          /\ env' = [env EXCEPT !.globals = SetAt(env.globals, vm.stack[Len(vm.stack) - 1].id,
                                                  Last(vm.stack))]
     /\ status' = "err" => env' = env
     /\ (phase = "compile" /\ phase' = "run") =>
          /\ vm'.stack = [i \in 1..Compiler_chunk(comp).scope_size |-> Nil]
          /\ vm'.calls = <<>>
          /\ vm'.callframe.ret = 0
          /\ vm'.callframe.pc = 0]_vars

\* (do (def x 1) gg) failed at gg, and the next run, x, yielded 1
C10_Witness ==
  /\ phase = "idle"
  /\ input = <<>>
  /\ src = S("x")
  /\ status = "ok"
  /\ result = Number(1)
  /\ GlobalOf(env, "gg") = None

\* the key a Define op takes from the stack: the element under the top
DefinedBy(stack) == stack[Len(stack) - 1]

\* C11: (def s e) stores the value of e in the global slot of s and yields
\* that value with the symbol removed from the stack; a slot changes only by
\* a Define of its symbol, and every LookUp of a bound symbol, in the same
\* or a later run, pushes what the slot holds.
C11_DefBindsGlobal ==
  [][/\ (Ran("Define") /\ Len(vm.stack) >= 2 /\ DefinedBy(vm.stack).tag = "Symbol") =>
          /\ status' = "run"
          /\ vm'.stack = Append(Take(vm.stack, Len(vm.stack) - 2), Last(vm.stack))
          /\ At(env'.globals, DefinedBy(vm.stack).id) = Last(vm.stack)
     /\ \A i \in 1..Len(env.globals) :
          env'.globals[i] # env.globals[i] =>
            (Ran("Define") /\ Len(vm.stack) >= 2 /\ DefinedBy(vm.stack) = Sym(i - 1))
     /\ (Ran("LookUp") /\ At(env.globals, op'.a) # None) =>
          /\ status' = "run"
          /\ vm'.stack = Append(vm.stack, At(env.globals, op'.a))
          /\ env' = env
     /\ (Finished' /\ src' \in {DefConst, DefExpr}) => (status' = "ok" /\ result' = Number(3))
     /\ (Finished' /\ src' = DefTwice) => (status' = "ok" /\ result' = Number(2))
     /\ (Finished' /\ src' = DefUse) => (status' = "ok" /\ result' = Number(6))]_vars

\* x was bound to 3 in one run, to 5 in the next, and the third run read 5
C11_Witness ==
  /\ Finished
  /\ input = <<>>
  /\ src = S("x")
  /\ status = "ok"
  /\ result = Number(5)
  /\ GlobalOf(env, "x") = Number(5)
  /\ GlobalOf(env0, "x") = Number(5)

\* C12: a LookUp of an interned symbol whose global slot is empty makes the
\* run fail with "symbol '<name>' not in scope.", <name> being the text of
\* the symbol, and binds nothing.
C12_UnboundLookupFails ==
  [][/\ (Ran("LookUp") /\ At(env.globals, op'.a) = None) =>
          /\ status' = "err"
          /\ result' = Str("symbol '" \o At(env.symbols, op'.a) \o "' not in scope.")
          /\ env' = env
     /\ (Finished' /\ src' \in {S("gg"), UnboundInLet} /\ At(env0'.globals, S("gg").id) = None) =>
          (status' = "err" /\ result' = Str("symbol 'gg' not in scope."))
     /\ (Finished' /\ src' \in {S("y"), UnboundInAdd} /\ At(env0'.globals, S("y").id) = None) =>
          (status' = "err" /\ result' = Str("symbol 'y' not in scope."))
     /\ (Finished' /\ src' = sIf) =>
          (status' = "err" /\ result' = Str("symbol 'if' not in scope."))]_vars

\* the run of gg failed with the message and gg is still unbound
C12_Witness ==
  /\ Finished
  /\ input = <<>>
  /\ src = S("gg")
  /\ status = "err"
  /\ result = Str("symbol 'gg' not in scope.")
  /\ GlobalOf(env, "gg") = None
  /\ op = Op1("LookUp", S("gg").id)

\* a run that returned the sum of the operands when all are numbers and an
\* error otherwise
SumOrError(operands) ==
  IF \A i \in 1..Len(operands) : operands[i].tag = "Number"
  THEN status = "ok" /\ result.tag = "Number"
       /\ result.n = (IF Len(operands) = 2 THEN operands[1].n + operands[2].n
                      ELSE operands[1].n + operands[2].n + operands[3].n)
  ELSE status = "err"

\* C13: (+) yields 0, (+ e1) the value of e1 whatever it is, and (+ e1 .. en)
\* with n >= 2 the sum of the operand values, constants, symbols and nested
\* + forms alike, operands evaluated from left to right; with n >= 2 the run
\* fails when an operand value is not a Number.
C13_AddForms ==
  /\ (Finished /\ src = AddNone) => (status = "ok" /\ result = Number(0))
  /\ \A a \in AddVals \cup {Str("a")} :
       (Finished /\ src = AddOne(a)) => (status = "ok" /\ result = a)
  /\ \A a \in AddVals, b \in AddVals :
       (Finished /\ src \in {AddKK(a, b), AddSK(a, b), AddKS(a, b), AddSS(a, b)})
         => SumOrError(<<a, b>>)
  /\ \A a \in AddVals, b \in AddVals, c \in AddVals :
       (Finished /\ src \in {AddKKK(a, b, c), AddNestedR(a, b, c), AddNestedL(a, b, c)})
         => SumOrError(<<a, b, c>>)
  /\ (Finished /\ src = AddTest) => (status = "ok" /\ result = Number(12))
  /\ (Finished /\ src = AddOrder) =>
       (status = "ok" /\ result = Number(5) /\ GlobalOf(env, "x") = Number(2))
  /\ (Finished /\ src = AddOfEmpty) => (status = "ok" /\ result = Number(2))

\* (let (x 1 y 2) (+ x y)) compiled the second operand and an Add, and ran to 3
C13_Witness ==
  /\ Finished
  /\ src = AddSS(Number(1), Number(2))
  /\ status = "ok"
  /\ result = Number(3)
  /\ op = Op0("Return")
  /\ \E i \in 1..Len(comp.chunk.ops) : comp.chunk.ops[i].op = "Add"

\* the names of the ops compiled so far
OpNames(ops) == [i \in 1..Len(ops) |-> ops[i].op]

C15_DoSequence ==
  [][/\ Ran("Pop") => (status' = "run" /\ vm'.stack = Front(vm.stack))
     /\ (Ran("Return") /\ vm.calls = <<>> /\ src \in DoForms) =>
          /\ Len(vm.stack) = Last(comp.scopes).max + 1
          /\ status' = "ok"
          /\ result' = Last(vm.stack)
     /\ \A a \in DoVals :
          /\ (Ran("Return") /\ src = DoOne(a)) => result' = a
          /\ \A b \in DoVals : (Ran("Return") /\ src = DoTwo(a, b)) => result' = b
     /\ (Ran("Return") /\ src = DoTest) =>
          /\ result' = Number(3)
          /\ OpNames(comp.chunk.ops) = <<"Push", "Pop", "Push", "Pop", "Push">>
     /\ (Ran("Return") /\ src = DoOrder) =>
          /\ result' = Number(3)
          /\ GlobalOf(env, "x") = Number(2)
          /\ GlobalOf(env, "y") = Number(1)
     /\ (Ran("Return") /\ src = DoNested) => result' = Number(4)
     /\ (Ran("Return") /\ src = DoInAdd) => result' = Number(6)
     /\ (Ran("Return") /\ src = DoInLet) => result' = Number(2)
     /\ (Ran("Return") /\ src = DoIf) => result' = Number(4)]_vars

\* (do (def x 1) (def y x) (def x 2) (+ x y)) returned 3 from an empty stack
C15_Witness ==
  /\ Finished
  /\ src = DoOrder
  /\ status = "ok"
  /\ result = Number(3)
  /\ vm.stack = <<>>
  /\ OpNames(comp.chunk.ops) =
       <<"Push", "Push", "Define", "Pop", "Push", "LookUp", "Define", "Pop",
         "Push", "Push", "Define", "Pop", "LookUp", "LookUp", "Add">>

\* v and w are the same value up to the identity of the lists in them
RECURSIVE SameShape(_, _)
SameShape(v, w) ==
  IF v.tag = "List"
  THEN /\ w.tag = "List"
       /\ Len(w.items) = Len(v.items)
       /\ \A i \in 1..Len(v.items) : SameShape(v.items[i], w.items[i])
  ELSE v = w

\* C16: (quasiquote v) for a v without unquote or splice-unquote yields v
\* itself, unevaluated: an atom as it is, a symbol as the symbol, a list as
\* a list of the same elements in the same order.
C16_QuasiquoteYieldsForm ==
  \A v \in QuasiVals :
    (Finished /\ src = Quasi(v)) => (status = "ok" /\ SameShape(v, result))

\* C17: a value the reader can produce (nil, a boolean, a symbol, a string
\* over any characters, a list of these), printed and read back with
\* tokenize, flush_token and read_ast, is read as one value equal to it up to
\* the identity of lists.
C17_PrintReadRoundTrip ==
  rphase = "reread-done" =>
    /\ Len(whole.out) = 2
    /\ whole.out[1].r = "Some"
    /\ SameShape(src, whole.out[1].v)
    /\ whole.out[2] = ReadNone

\* the kinds of the partial forms on a reader's stack, outermost first:
\* "List" or the name of a reader-macro token
Kinds(stack) == [i \in 1..Len(stack) |-> stack[i].p]

MacroTokens == {"Quote", "Quasiquote", "Unquote", "SpliceUnquote", "Deref"}

\* the name a reader-macro token stands for
WrapperOf(t) ==
  CASE t = "Quote" -> "quote"
    [] t = "Quasiquote" -> "quasiquote"
    [] t = "Unquote" -> "unquote"
    [] t = "SpliceUnquote" -> "splice-unquote"
    [] t = "Deref" -> "deref"

\* a value as text and nesting: a symbol by its name, a list by its items
RECURSIVE Shape(_, _)
Shape(v, e) ==
  CASE v.tag = "Symbol" -> At(e.symbols, v.id)
    [] v.tag = "List" -> [items |-> [i \in 1..Len(v.items) |-> Shape(v.items[i], e)]]
    [] OTHER -> v

\* what a sequence of tokens spells, by the grammar: an atom, a list of
\* forms between ListStart and ListEnd, or a reader-macro token and the one
\* form after it, spelled as the list (<name> form).  ok is FALSE when the
\* tokens end inside the form or a ListEnd stands where a form must start.
RECURSIVE FormOf(_), ItemsOf(_, _), FormsOf(_)
FormOf(ts) ==
  IF ts = <<>> THEN [ok |-> FALSE, v |-> "", rest |-> <<>>]
  ELSE LET t == Head(ts).t
       IN CASE t = "Atom" -> [ok |-> TRUE, v |-> Text(Head(ts).s), rest |-> Tail(ts)]
            [] t = "ListStart" -> ItemsOf(Tail(ts), <<>>)
            [] t = "ListEnd" -> [ok |-> FALSE, v |-> "", rest |-> <<>>]
            [] OTHER ->
                 LET f == FormOf(Tail(ts))
                 IN IF f.ok THEN [ok |-> TRUE, v |-> [items |-> <<WrapperOf(t), f.v>>], rest |-> f.rest]
                    ELSE f
ItemsOf(ts, acc) ==
  IF ts = <<>> THEN [ok |-> FALSE, v |-> "", rest |-> <<>>]
  ELSE IF Head(ts).t = "ListEnd" THEN [ok |-> TRUE, v |-> [items |-> acc], rest |-> Tail(ts)]
  ELSE LET f == FormOf(ts)
       IN IF f.ok THEN ItemsOf(f.rest, Append(acc, f.v)) ELSE f
\* the complete top-level forms the tokens spell, up to the first that fails
FormsOf(ts) ==
  LET f == FormOf(ts) IN IF f.ok THEN <<f.v>> \o FormsOf(f.rest) ELSE <<>>

\* the number of values read_ast returned before its first error
RECURSIVE ValuesBeforeError(_)
ValuesBeforeError(out) ==
  IF out = <<>> \/ Head(out).r # "Some" THEN 0 ELSE 1 + ValuesBeforeError(Tail(out))

\* C18: a reader-macro token followed by a complete form f is read as the
\* list (<name> f), <name> being quote, quasiquote, unquote, splice-unquote
\* or deref: it wraps exactly f, the forms after f are siblings, consecutive
\* macros nest, inside lists as at the top level.  The values read_ast has
\* returned are the forms the tokens spell by that grammar.
C18_ReaderMacros ==
  rphase = "pieces" =>
    LET spelled == FormsOf(chunked.rd.tokens)
        n == ValuesBeforeError(eager.out)
    IN /\ n <= Len(spelled)
       /\ \A i \in 1..n : Shape(eager.out[i].v, eager.env) = spelled[i]
       /\ (eager.rd.tokens = <<>> /\ n = Len(eager.out)) => n = Len(spelled)

\* ''n( was read up to the parenthesis as (quote (quote n)), and the list
\* that follows is not part of it
C18_Witness ==
  /\ rphase = "pieces"
  /\ sent = <<"'", "'", "n", "(">>
  /\ Len(eager.out) = 1
  /\ eager.out[1].r = "Some"
  /\ Shape(eager.out[1].v, eager.env) =
       [items |-> <<"quote", [items |-> <<"quote", "n">>]>>]
  /\ Kinds(eager.rd.stack) = <<"List">>

\* the reading of a queue of tokens from a stack with the given kinds, by
\* kinds alone: a form that closes under a reader macro closes the macro's
\* list as well; r is what the call returns, k the kinds left, rest the
\* tokens left
RECURSIVE CloseForm(_), ReadKinds(_, _)
CloseForm(k) ==
  IF k = <<>> THEN [k |-> <<>>, r |-> "Some"]
  ELSE IF Last(k) = "List" THEN [k |-> k, r |-> "None"]
  ELSE CloseForm(Front(k))
ReadKinds(k, ts) ==
  IF ts = <<>> THEN [r |-> "None", k |-> k, rest |-> <<>>, msg |-> ""]
  ELSE LET t == Head(ts).t
           closed == CloseForm(IF t = "ListEnd" THEN Front(k) ELSE k)
       IN CASE t = "ListStart" \/ t \in MacroTokens -> ReadKinds(Append(k, IF t = "ListStart" THEN "List" ELSE t), Tail(ts))
            [] t = "ListEnd" /\ k = <<>> ->
                 [r |-> "Err", k |-> <<>>, rest |-> Tail(ts), msg |-> "A form cannot begin with ')'"]
            [] t = "ListEnd" /\ k # <<>> /\ Last(k) # "List" ->
                 [r |-> "Err", k |-> <<>>, rest |-> Tail(ts),
                  msg |-> "Cannot " \o WrapperOf(Last(k)) \o " a ')'"]
            [] OTHER ->
                 IF closed.r = "Some" THEN [r |-> "Some", k |-> <<>>, rest |-> Tail(ts), msg |-> ""]
                 ELSE ReadKinds(closed.k, Tail(ts))

\* this step is a call of read_ast on eager
ReadStep ==
  /\ sent' = sent
  /\ ~eager.fin
  /\ (rphase = "pieces" /\ rphase' = "pieces") \/ rphase = "rest"

\* C19: read_ast fails with "A form cannot begin with ')'" exactly when a ')'
\* arrives while no form is open and with "Cannot <wrapper> a ')'" exactly
\* when a ')' arrives right after a reader-macro token; after the error the
\* stack of partial forms is empty, the tokens behind the ')' are still
\* queued, and the next call starts from them.
C19_ReadErrors ==
  [][ReadStep =>
       LET by_kinds == ReadKinds(Kinds(eager.rd.stack), eager.rd.tokens)
       IN /\ (eager'.res.r = "Err") <=> (by_kinds.r = "Err")
          /\ eager'.res.r = "Err" =>
               /\ eager'.res = ReadErr(by_kinds.msg)
               /\ eager'.rd.stack = <<>>
               /\ eager'.rd.tokens = by_kinds.rest
               /\ eager'.rd.token_buf = eager.rd.token_buf]_vars

\* (') : the ')' after the quote failed and took the open list with it
C19_Witness ==
  /\ rphase = "pieces"
  /\ sent = <<"(", "'", ")", "(">>
  /\ eager.out = <<ReadErr("Cannot quote a ')'")>>
  /\ eager.rd.tokens = <<>>
  /\ Kinds(eager.rd.stack) = <<"List">>

\* the values and errors among the results of read_ast
RECURSIVE ValuesAndErrors(_)
ValuesAndErrors(out) ==
  IF out = <<>> THEN <<>>
  ELSE (IF Head(out).r = "None" THEN <<>> ELSE <<Head(out)>>) \o ValuesAndErrors(Tail(out))

\* C20: read_ast returns None exactly when the queued tokens do not complete
\* a top-level form, and then keeps the partial forms on its stack; it
\* returns the form once the tokens that complete it have arrived; the
\* values and errors returned are the same whether read_ast is called
\* between the calls of tokenize or only after the whole text.
C20_RestartableReading ==
  [][/\ ReadStep =>
          LET by_kinds == ReadKinds(Kinds(eager.rd.stack), eager.rd.tokens)
          IN /\ (eager'.res.r = "None") <=> (by_kinds.r = "None")
             /\ eager'.res.r = "None" =>
                  /\ eager'.rd.tokens = <<>>
                  /\ Kinds(eager'.rd.stack) = by_kinds.k
                  /\ Len(eager'.rd.stack) >= Len(eager.rd.stack) =>
                       \A i \in 1..Len(eager.rd.stack) :
                         eager.rd.stack[i].p = "List" =>
                           SubSeq(eager'.rd.stack[i].items, 1, Len(eager.rd.stack[i].items))
                             = eager.rd.stack[i].items
             /\ eager'.res.r = "Some" =>
                  /\ eager'.rd.tokens = by_kinds.rest
                  /\ eager'.rd.stack = <<>>
     /\ rphase' = "all-read" =>
          /\ ValuesAndErrors(eager'.out) = ValuesAndErrors(chunked'.out)
          /\ eager'.rd = chunked'.rd
          /\ eager'.env = chunked'.env]_vars

\* of (n)n the list (n) was returned between two calls of tokenize, while
\* the reader that is read at the end still holds its three tokens
C20_Witness ==
  /\ rphase = "pieces"
  /\ sent = <<"(", "n", ")", "n">>
  /\ eager.res.r = "Some"
  /\ Shape(eager.res.v, eager.env) = [items |-> <<"n">>]
  /\ eager.out = <<eager.res>>
  /\ chunked.out = <<>>
  /\ Len(chunked.rd.tokens) = 3

(***************************************************************************)
(* The hub of shared environments                                          *)
(***************************************************************************)
\* C21: symbol interning.  Equal texts have the same id and different texts
\* different ids; the ids in use are exactly 0..n-1 in order of first
\* registration, the reserved special-form names first; an id once assigned
\* never changes; registering a text the table knows changes neither the
\* table nor the shared slots nor the caller's own slots.
C21_SymbolInterning ==
  /\ [](/\ \A s \in DOMAIN hub.symbols, t \in DOMAIN hub.symbols :
             hub.symbols[s] = hub.symbols[t] => s = t
        /\ Len(hist) = Cardinality(DOMAIN hub.symbols)
        /\ \A i \in 1..Len(hist) : hist[i] \in DOMAIN hub.symbols /\ hub.symbols[hist[i]] = i - 1
        /\ SubSeq(hist, 1, Len(DEFAULT_SYMBOLS)) = DEFAULT_SYMBOLS
        /\ hcall.call = "reg_symbol" => hcall.id \in 0..(Len(hist) - 1))
  /\ [][/\ \A t \in DOMAIN hub.symbols :
             t \in DOMAIN hub'.symbols /\ hub'.symbols[t] = hub.symbols[t]
        /\ (hcall'.call = "reg_symbol" /\ hcall'.id < Cardinality(DOMAIN hub.symbols))
             => /\ hub' = hub
                /\ envs'[hcall'.who].globals = envs[hcall'.who].globals]_vars

\* Session 1 registered y and session 2 then x: y has the first id after the
\* reserved ones and x the next.  The last call is session 2's registration
\* of the known text y, which left every slot array as it was
C21_Witness ==
  /\ hist = DEFAULT_SYMBOLS \o <<"y", "x">>
  /\ hub.symbols["x"] = Len(DEFAULT_SYMBOLS) + 1
  /\ hcall.call = "reg_symbol" /\ hcall.who = 2 /\ hcall.id = Len(DEFAULT_SYMBOLS)
  /\ Len(envs[2].globals) = Len(DEFAULT_SYMBOLS) + 1
  /\ Len(envs[1].globals) = Len(DEFAULT_SYMBOLS) + 1

\* C22: every id reg_symbol returns to a session is smaller than the length
\* of that session's own globals, and no get_by_id or set of a session
\* indexes out of bounds (no panic, no undefined behaviour).
C22_IdsWithinOwnSlots ==
  /\ hcall.call = "reg_symbol" => hcall.id < Len(envs[hcall.who].globals)
  /\ hcall.r \notin {"panic", "ub"}

\* A set of id that started or returned after hcall's, or is in progress
LaterSet(a, id) ==
  \/ hcall.call = "set" /\ hcall.id = id /\ (hcall.r = "pending" \/ hcall.who # a)
  \/ \E c \in Conns : envs[c].st = "set" /\ envs[c].pend.id = id

\* C23: every change one session makes is made available to the other
\* sessions of the hub.  After set(s, v) of session a returned Ok, get_by_id(s)
\* in another session b that was cloned before, and whose own globals have
\* the slot of s, eventually returns v, unless s is set again or b or the
\* server stopped.
C23_CrossSessionVisibility ==
  \A a \in Conns, b \in Conns, id \in UserIds, v \in HubVals :
    a # b =>
      ((/\ hcall = [who |-> a, call |-> "set", id |-> id, r |-> "ok", val |-> v]
        /\ envs[b].st = "idle"
        /\ id < Len(envs[b].globals))
       ~> (\/ hcall = [who |-> b, call |-> "get_by_id", id |-> id, r |-> "ok", val |-> v]
           \/ LaterSet(a, id)
           \/ envs[b].st \in {"panic", "ub"}
           \/ ~ServerUp))

C25_ArityChecked ==
  (src \in ArityForms /\ status # "none") => status = "cerr"

\* compile returned Ok for the form of src; its chunk is Compiler_chunk(comp)
CompiledOk == phase = "run" /\ src # Nil

\* the forms above the nearest Return (or the bottom) are IfThen, IfElse, Let
InTail(forms) ==
  LET base == IF \E i \in 1..Len(forms) : forms[i].f = "Return"
              THEN CHOOSE i \in 1..Len(forms) :
                     forms[i].f = "Return" /\ \A j \in (i + 1)..Len(forms) : forms[j].f # "Return"
              ELSE 0
  IN  \A i \in (base + 1)..Len(forms) : forms[i].f \in {"IfThen", "IfElse", "Let"}

\* the Call and Tailcall ops of a chunk in order, then those of the functions
\* among its constants
RECURSIVE CallNames(_), CallsOfConsts(_, _)
CallsOfConsts(consts, i) ==
  IF i > Len(consts) THEN <<>>
  ELSE (IF consts[i].tag \in {"Func", "Closure"} THEN CallNames(consts[i].chunk) ELSE <<>>)
       \o CallsOfConsts(consts, i + 1)
CallNames(chunk) ==
  OpNames(SelectSeq(chunk.ops, LAMBDA o : o.op \in {"Call", "Tailcall"}))
  \o CallsOfConsts(chunk.consts, 1)

\* C26: tail-position analysis.  The op emitted for a call is Tailcall exactly
\* when every active form above the nearest enclosing Return (or the bottom of
\* the form stack) is IfThen, IfElse or Let; in every chunk the op after a
\* Tailcall is Return; and a call in argument position, in a non-last do
\* element, in an if condition, in a let binding value, in a def value or as
\* an operand of + is a Call.
C26_TailPosition ==
  /\ [](CompiledOk =>
          /\ TailcallsReturn(Compiler_chunk(comp))
          /\ \A p \in PositionCases :
               src = p.form => CallNames(Compiler_chunk(comp)) = p.calls)
  /\ [][(phase = "compile" /\ comp.st = "run" /\ comp.forms # <<>> /\ Last(comp.forms).f = "Apply")
          => Last(comp'.chunk.ops).op =
               (IF InTail(Front(comp.forms)) THEN "Tailcall" ELSE "Call")]_vars

\* (if 1 (if 2 (f 1) 3) (let (x 1) (f 1))) was compiled: both calls are
\* Tailcalls
C26_Witness ==
  /\ CompiledOk
  /\ src = IfOf(Number(1), IfOf(Number(2), CallF, Number(3)), LetX(Number(1), CallF))
  /\ CallNames(Compiler_chunk(comp)) = <<"Tailcall", "Tailcall">>

IsPrefix(a, b) == Len(a) <= Len(b) /\ SubSeq(b, 1, Len(a)) = a

\* no two constants of the chunk are equal atoms or strings, every constant
\* operand is an index of the chunk's consts; likewise in the functions among
\* the constants
RECURSIVE ConstsOk(_)
ConstsOk(chunk) ==
  /\ \A i \in 1..Len(chunk.consts), j \in 1..Len(chunk.consts) :
       (i < j /\ chunk.consts[i].tag \in {"Nil", "Bool", "Number", "Symbol", "Str"})
         => chunk.consts[i] # chunk.consts[j]
  /\ \A i \in 1..Len(chunk.ops) :
       chunk.ops[i].op \in {"Push", "AddConst", "EqConst"} => chunk.ops[i].a < Len(chunk.consts)
  /\ \A i \in 1..Len(chunk.consts) :
       chunk.consts[i].tag \in {"Func", "Closure"} => ConstsOk(chunk.consts[i].chunk)

\* the head of the list v is the special form with id
HeadIs(v, id) == v.tag = "List" /\ v.items # <<>> /\ v.items[1] = Sym(id)

\* The step of compile from comp to comp' gave the constant it names the index
\* of itself: the op it emitted, or the EqualConst form it pushed, refers to
\* that constant in the consts of the chunk.
ConstIntended ==
  LET form == Last(comp.forms)
      ops1 == comp'.chunk.ops
      cs == comp'.chunk.consts
      one == Len(ops1) = Len(comp.chunk.ops) + 1
      Pushed(v) == one /\ Last(ops1).op = "Push" /\ Last(ops1).a < Len(cs) /\ At(cs, Last(ops1).a) = v
  IN  CASE form.f = "Value" /\ (is_const(form.v) \/ (form.v.tag = "List" /\ form.v.items = <<>>)) ->
             Pushed(form.v)
        [] form.f = "Value" /\ HeadIs(form.v, symbols_DEFINE) -> Pushed(form.v.items[2])
        [] form.f = "Value" /\ HeadIs(form.v, symbols_QUOTE) -> Pushed(form.v.items[2])
        [] form.f = "Value" /\ HeadIs(form.v, symbols_PLUS) /\ Len(form.v.items) = 1 -> Pushed(Number(0))
        [] form.f = "Value" /\ HeadIs(form.v, symbols_EQUAL) ->
             LET a == form.v.items[2]
                 b == form.v.items[3]
                 pushed == comp'.forms[Len(comp'.forms) - 1]
             IN  IF is_const(a) /\ is_const(b) THEN Pushed(Bool(a = b))
                 ELSE IF is_const(a) \/ is_const(b)
                 THEN /\ pushed.f = "EqualConst"
                      /\ pushed.k < Len(cs)
                      /\ At(cs, pushed.k) = (IF is_const(a) THEN a ELSE b)
                 ELSE TRUE
        [] form.f = "AddMany" /\ form.idx >= 2 /\ form.idx < Len(form.l.items)
             /\ is_const(At(form.l.items, form.idx)) ->
             /\ one
             /\ Last(ops1).op = "AddConst"
             /\ Last(ops1).a < Len(cs)
             /\ At(cs, Last(ops1).a) = At(form.l.items, form.idx)
        [] form.f = "EqualConst" -> one /\ Last(ops1) = Op1("EqConst", form.k) /\ form.k < Len(cs)
        [] form.f = "Return" ->
             LET push == IF Last(ops1).op = "Closure" THEN ops1[Len(ops1) - 1] ELSE Last(ops1)
             IN  /\ push.op = "Push"
                 /\ push.a < Len(cs)
                 /\ At(cs, push.a).tag \in {"Func", "Closure"}
                 /\ At(cs, push.a).chunk.ops = Append(comp.chunk.ops, Op0("Return"))
                 /\ At(cs, push.a).chunk.consts = comp.chunk.consts
        [] OTHER -> TRUE

\* The step of compile keeps every constant at its index: the consts of the
\* chunk only grow, a fn sets the chunk aside whole and gets it back whole.
ConstsKept ==
  LET form == Last(comp.forms)
  IN  CASE form.f = "Return" -> IsPrefix(form.chunk.consts, comp'.chunk.consts)
        [] form.f = "Value" /\ HeadIs(form.v, symbols_FN) ->
             comp'.forms[Len(comp.forms)] = FReturn(comp.chunk)
        [] OTHER -> IsPrefix(comp.chunk.consts, comp'.chunk.consts)

\* C27: constant pool discipline.  In every chunk compile produces, nested
\* function chunks included, no two constants are equal atoms or strings and
\* every Push(k), AddConst(k) and EqConst(k) has k < consts.len() of its own
\* chunk and refers to the constant it was emitted for, also when the index
\* was taken before a nested fn or an if branch was compiled.
C27_ConstantPool ==
  /\ [](CompiledOk => ConstsOk(Compiler_chunk(comp)))
  /\ [][(phase = "compile" /\ comp.st = "run" /\ comp.forms # <<>> /\ comp'.st = "run" /\ ~comp.quoting)
          => (ConstIntended /\ ConstsKept)]_vars

\* (= 7 (nil (fn () (do 8 7)))) was compiled: the chunk holds 7, nil and the
\* function, the function's chunk 8 and 7, and EqConst refers to the 7 whose
\* index was taken before the fn was compiled
C27_Witness ==
  /\ CompiledOk
  /\ src = ConstEqFn
  /\ Len(Compiler_chunk(comp).consts) = 3
  /\ Compiler_chunk(comp).consts[1] = Number(7)
  /\ Compiler_chunk(comp).consts[3].tag = "Func"
  /\ Compiler_chunk(comp).consts[3].chunk.consts = <<Number(8), Number(7)>>
  /\ \E i \in 1..Len(Compiler_chunk(comp).ops) : Compiler_chunk(comp).ops[i] = Op1("EqConst", 0)

\* every Load and Store of the chunk names a slot below its scope_size; a
\* function among the constants has a locals template of the scope_size of
\* its chunk, a closure has every outer's dest below it; likewise inside them
RECURSIVE LocalsOk(_)
LocalsOk(chunk) ==
  /\ \A i \in 1..Len(chunk.ops) :
       chunk.ops[i].op \in {"Load", "Store"} => chunk.ops[i].a < chunk.scope_size
  /\ \A i \in 1..Len(chunk.consts) :
       LET k == chunk.consts[i]
       IN  /\ k.tag = "Func" => (Len(k.locals) = k.chunk.scope_size /\ LocalsOk(k.chunk))
           /\ k.tag = "Closure" =>
                /\ \A j \in 1..Len(k.outers) : k.outers[j].dest < k.chunk.scope_size
                /\ LocalsOk(k.chunk)

\* every function among the values has locals of the scope_size of its chunk
FuncsSized(values) ==
  \A i \in 1..Len(values) :
    values[i].tag = "Func" => Len(values[i].locals) = values[i].chunk.scope_size

\* The step of compile from comp to comp' keeps max the high-water mark of
\* the locals of the scope: within a scope max only rises, and to the number
\* of locals then declared; a fn starts a scope whose max is the number of
\* its parameters, and the function it ends with gets the max of its scope.
HighWater ==
  LET top == Last(comp.scopes)
      top1 == Last(comp'.scopes)
  IN  CASE Len(comp'.scopes) = Len(comp.scopes) ->
             /\ Front(comp'.scopes) = Front(comp.scopes)
             /\ top1.max = Max2(top.max, Len(top1.locals))
        [] Len(comp'.scopes) = Len(comp.scopes) + 1 ->
             /\ Front(comp'.scopes) = comp.scopes
             /\ top1.max = Len(top1.locals)
        [] Len(comp'.scopes) = Len(comp.scopes) - 1 ->
             /\ comp'.scopes = Front(comp.scopes)
             /\ Last(comp'.chunk.consts).tag \in {"Func", "Closure"}
             /\ Last(comp'.chunk.consts).chunk.scope_size = top.max
        [] OTHER -> FALSE

\* C28: local bounds.  In every chunk compile produces, every Load(i) and
\* Store(i) has i < scope_size of its chunk, where scope_size is the
\* high-water mark of the locals declared at once in the scope (parameters,
\* let bindings and captured outers); every Outer.dest of a closure is below
\* the scope_size of its chunk, which is the length of the locals of the
\* Func, the one the compiler builds and the one the Closure op builds.
C28_LocalBounds ==
  /\ [](/\ CompiledOk => LocalsOk(Compiler_chunk(comp))
        /\ (phase = "compile" /\ comp.st = "run") =>
              \A l \in 1..Len(comp.scopes) : Len(comp.scopes[l].locals) <= comp.scopes[l].max
        /\ phase = "run" => FuncsSized(vm.stack))
  /\ [][(phase = "compile" /\ comp.st = "run" /\ comp.forms # <<>> /\ comp'.st = "run")
          => HighWater]_vars

\* (let (n 1) (fn () (do (let (y 2) n) n))) was compiled and its Closure op
\* ran: the closure captures n twice into slot 1 of a chunk of 2 slots, the
\* function on the stack has 2 locals
C28_Witness ==
  /\ CompiledOk
  /\ src = LocalTwice
  /\ \E i \in 1..Len(Compiler_chunk(comp).consts) :
       LET k == Compiler_chunk(comp).consts[i]
       IN  /\ k.tag = "Closure"
           /\ k.chunk.scope_size = 2
           /\ Len(k.outers) = 2
           /\ \A j \in 1..2 : k.outers[j].dest = 1
  /\ vm.stack # <<>>
  /\ Last(vm.stack).tag = "Func"
  /\ Len(Last(vm.stack).locals) = 2

\* the op at offset p of ops sends the pc, which the fetch has moved to
\* p + 1, to p + 1 + n
Target(p, n) == p + 1 + n

\* the last op of the chunk is Return and every Jmp and CondJmp of it lands on
\* an op of the chunk; likewise in the functions among the constants
RECURSIVE JumpsOk(_)
JumpsOk(chunk) ==
  /\ chunk.ops # <<>>
  /\ Last(chunk.ops) = Op0("Return")
  /\ \A i \in 1..Len(chunk.ops) :
       chunk.ops[i].op \in {"Jmp", "CondJmp"} =>
         Target(i - 1, chunk.ops[i].a) \in 0..(Len(chunk.ops) - 1)
  /\ \A i \in 1..Len(chunk.consts) :
       chunk.consts[i].tag \in {"Func", "Closure"} => JumpsOk(chunk.consts[i].chunk)

\* The step of compile that ends an if lays out the ops before the if, a
\* CondJmp to the first op of the else-branch, the then-branch, a Return or a
\* Jmp to the op after the else-branch, and the else-branch.
BranchesLaidOut ==
  LET form == Last(comp.forms)
      ops1 == comp'.chunk.ops
      base == Len(form.ops)
      t == Len(form.then_ops)
      e == Len(comp.chunk.ops)
      cj == At(ops1, base)
      j == At(ops1, base + 1 + t)
  IN  /\ Len(ops1) = base + 1 + t + 1 + e
      /\ SubSeq(ops1, 1, base) = form.ops
      /\ SubSeq(ops1, base + 2, base + 1 + t) = form.then_ops
      /\ SubSeq(ops1, base + t + 3, base + t + 2 + e) = comp.chunk.ops
      /\ cj.op = "CondJmp"
      /\ Target(base, cj.a) = base + 1 + t + 1
      /\ \/ j = Op0("Return")
         \/ j.op = "Jmp" /\ Target(base + 1 + t, j.a) = base + 1 + t + 1 + e

\* the pc of the frame is on an op of its chunk
PcInside(frame) == frame.pc \in 0..(Len(frame.ops) - 1)

\* C29: control-flow well-formedness of compiled chunks.  In every chunk
\* compile produces each CondJmp lands on the first op of its else-branch and
\* each Jmp on the op that follows its else-branch, every jump target is in
\* [0, ops.len()), the last op of every chunk is Return and the pc never
\* leaves the ops, also for nested if forms and if forms in tail position.
C29_ControlFlow ==
  /\ [](/\ CompiledOk => JumpsOk(Compiler_chunk(comp))
        /\ (phase = "run" /\ status = "run") =>
              /\ PcInside(vm.callframe)
              /\ \A i \in 1..Len(vm.calls) : PcInside(vm.calls[i])
        /\ \A c \in JumpConds, d \in JumpConds :
              (status \notin {"none", "run"}) =>
                 /\ src = JumpTail(c, d) => (status = "ok" /\ result = Number(JumpValue(c, d)))
                 /\ src \in {JumpNest(c, d), JumpInFn(c, d)} =>
                      (status = "ok" /\ result = Number(JumpValue(c, d) + 5)))
  /\ [][(phase = "compile" /\ comp.st = "run" /\ comp.forms # <<>> /\ comp'.st = "run"
           /\ Last(comp.forms).f = "IfElse") => BranchesLaidOut]_vars

\* (+ (if nil (if 1 1 2) (if 1 3 4)) 5) was compiled and ran to 8: the chunk
\* has three CondJmp and three Jmp, none of them in tail position
C29_Witness ==
  /\ src = JumpNest(Nil, Number(1))
  /\ status = "ok"
  /\ result = Number(8)
  /\ Cardinality({i \in 1..Len(Compiler_chunk(comp).ops) : Compiler_chunk(comp).ops[i].op = "CondJmp"}) = 3
  /\ Cardinality({i \in 1..Len(Compiler_chunk(comp).ops) : Compiler_chunk(comp).ops[i].op = "Jmp"}) = 3

(***************************************************************************)
(* Calls                                                                   *)
(***************************************************************************)

\* the call list whose Call or Tailcall the top-level chunk of the form holds
CallListOf(form) ==
  IF \E v \in ArgVals : form = CallIdCall(v) THEN form.items[2] ELSE form

\* the op the VM executes next
NextOp == At(vm.callframe.ops, vm.callframe.pc)

\* C30: call operand protocol.  For a call list of n elements, the callee
\* expression and n - 1 arguments, compile emits Call(a) or Tailcall(a) such
\* that, when the op executes, stack[len - a] holds the value of the list's
\* first element and the a - 1 slots above it hold the values of the
\* arguments in order.
C30_CallOperands ==
  \A v \in ArgVals :
    (/\ phase = "run"
     /\ status = "run"
     /\ src \in {CallIdTail(v), CallIdCall(v), CallSnd(v)}
     /\ vm.calls = <<>>
     /\ PcInside(vm.callframe)
     /\ NextOp.op \in {"Call", "Tailcall"})
      => LET a == NextOp.a
             list == CallListOf(src).items
             len == Len(vm.stack)
         IN  /\ a = Len(list)
             /\ a <= len
             /\ At(vm.stack, len - a).tag = "Func"
             /\ \A k \in 1..(a - 1) : At(vm.stack, len - a + k) = list[k + 1]

(***************************************************************************)
(* Sessions of an environment with native functions: the embedding program *)
(* has bound f to the native + and gg to the native concat with set.       *)
(***************************************************************************)

EnvNative ==
  env_set(env_set(EnvInit, S("f"), FuncNative("+")).env, S("gg"), FuncNative("concat")).env

NumArgs == {<<>>, <<Number(1)>>, <<Number(1), Number(2)>>, <<Number(1), Str("a")>>}
StrArgs == {<<>>, <<Str("a")>>, <<Str("a"), Str("b")>>}

\* (nil f args...), (nil gg args...): Tailcall of a native at the top level
NatTail(fn, args) == L(<<Nil, fn>> \o args)
\* (+ (nil f args...) 5): Call of a native
NatCall(args) == L(<<sPlus, NatTail(S("f"), args), Number(5)>>)
\* (do (nil gg args...) 9)
NatCatCall(args) == L(<<sDo, NatTail(S("gg"), args), Number(9)>>)
\* (do (nil (fn () (nil gg args...))) 9): Tailcall of a native in a frame
\* whose ret is 1
NatDeep(args) == L(<<sDo, L(<<Nil, FnOf(NatTail(S("gg"), args))>>), Number(9)>>)

NativeForms ==
  {NatTail(S("f"), a) : a \in NumArgs} \cup {NatTail(S("gg"), a) : a \in StrArgs}
  \cup {NatCall(a) : a \in NumArgs} \cup {NatCatCall(a) : a \in StrArgs}
  \cup {NatDeep(a) : a \in StrArgs}

NativeSessions == {<<p>> : p \in NativeForms \cup {IfShort}}

InitNative ==
  /\ input \in NativeSessions
  /\ src = Nil
  /\ phase = "idle"
  /\ comp = Compiler_init(Nil, 0)
  /\ vm = VmIdle
  /\ env = EnvNative
  /\ env0 = EnvNative
  /\ heap = 0
  /\ status = "none"
  /\ result = Nil
  /\ op = NoOp
  /\ sent = <<>>
  /\ chunked = ReaderStart
  /\ whole = ReaderStart
  /\ eager = ReaderStart
  /\ rphase = "off"
  /\ HubOff

SpecNative == InitNative /\ [][Next]_vars

\* the VM is about to execute the op named name
About(name) ==
  /\ phase = "run"
  /\ status = "run"
  /\ PcInside(vm.callframe)
  /\ NextOp.op = name

\* the slot of the callee of the Call or Tailcall about to execute
CalleeSlot == Len(vm.stack) - NextOp.a

\* C31: Tailcall argument move.  Tailcall(a) to a compiled function, in a
\* frame with any ret, puts argument i, read from stack[len - a + 1 + i], into
\* stack[ret + i] for every i < a - 1, also when the two regions overlap, cuts
\* the stack to ret + a - 1 and appends the callee's template locals from
\* index a - 1 on.
C31_TailcallArgMove ==
  [][(/\ About("Tailcall")
      /\ NextOp.a \in 1..Len(vm.stack)
      /\ At(vm.stack, CalleeSlot).tag = "Func"
      /\ NextOp.a - 1 <= Len(At(vm.stack, CalleeSlot).locals)
      /\ vm.callframe.ret <= CalleeSlot)
       => LET a == NextOp.a
              callee == At(vm.stack, CalleeSlot)
              ret == vm.callframe.ret
          IN  /\ status' = "run"
              /\ vm'.stack = Take(vm.stack, ret)
                             \o SubSeq(vm.stack, CalleeSlot + 2, Len(vm.stack))
                             \o Drop(callee.locals, a - 1)]_vars

\* C32: Return frame effect.  Return with a saved frame moves the top value
\* to stack[ret], cuts the stack to ret + 1 slots, restores the pc, consts
\* and ret of the frame saved last and leaves every slot below ret as it
\* was; Return with no saved frame ends run with the top value as result.
C32_ReturnEffect ==
  [][About("Return") =>
       LET ret == vm.callframe.ret
       IN  IF vm.calls # <<>>
           THEN /\ ret < Len(vm.stack)
                /\ status' = "run"
                /\ Len(vm'.stack) = ret + 1
                /\ At(vm'.stack, ret) = Last(vm.stack)
                /\ \A k \in 1..ret : vm'.stack[k] = vm.stack[k]
                /\ vm'.callframe = Last(vm.calls)
                /\ vm'.calls = Front(vm.calls)
           ELSE /\ vm.stack # <<>>
                /\ status' = "ok"
                /\ result' = Last(vm.stack)]_vars

\* the Return of the function of (= 7 (nil (fn () (do 8 7)))) has run: 7 is
\* in the slot of the callee, above the nil below it, and the frame of the
\* top level is back
C32_Witness ==
  /\ src = ConstEqFn
  /\ status = "run"
  /\ op.op = "Return"
  /\ vm.calls = <<>>
  /\ vm.stack = <<Nil, Number(7)>>
  /\ vm.callframe.ret = 0
  /\ vm.callframe.pc > 0

\* the Call or Tailcall about to execute has a native in the callee's slot
AboutNative(name) ==
  /\ About(name)
  /\ NextOp.a \in 1..Len(vm.stack)
  /\ At(vm.stack, CalleeSlot).tag = "FuncNative"

\* what the native in the callee's slot answers to the values above it
NativeAnswer ==
  NativeApply(At(vm.stack, CalleeSlot).name, SubSeq(vm.stack, CalleeSlot + 2, Len(vm.stack)))

\* the step left the native's result at slot at, nothing above it, the slots
\* below as they were, and pushed no frame
NativeResultAt(at) ==
  /\ status' = "run"
  /\ Len(vm'.stack) = at + 1
  /\ At(vm'.stack, at) = NativeAnswer.val
  /\ \A k \in 1..at : vm'.stack[k] = vm.stack[k]
  /\ vm'.calls = vm.calls
  /\ vm'.callframe = [vm.callframe EXCEPT !.pc = @ + 1]

\* C33: native call effect.  Call(a) on a FuncNative passes exactly the a - 1
\* values above the callee to the native and, on Ok, leaves the stack with
\* the result in the callee's slot ret', nothing above it and all slots below
\* unchanged, and pushes no frame; Tailcall does the same with the result at
\* the ret of the current frame; when the native returns Err, run returns it.
C33_NativeCall ==
  [][/\ AboutNative("Call") =>
          IF NativeAnswer.ok THEN NativeResultAt(CalleeSlot)
          ELSE status' = "err" /\ result' = Str(NativeAnswer.msg)
     /\ AboutNative("Tailcall") =>
          IF NativeAnswer.ok THEN NativeResultAt(vm.callframe.ret)
          ELSE status' = "err" /\ result' = Str(NativeAnswer.msg)]_vars

\* the Call of (do (nil gg "a" "b") 9) has run: "ab" is in the slot of the
\* callee, above the nil, and no frame was saved
C33_Witness ==
  /\ src = NatCatCall(<<Str("a"), Str("b")>>)
  /\ status = "run"
  /\ op.op = "Call"
  /\ vm.stack = <<Nil, Str("ab")>>
  /\ vm.calls = <<>>

\* count slots from slot from on lie within a vector of len slots
Within(from, count, len) == from >= 0 /\ from + count <= len

\* C34: memory safety of the VM.  For every chunk compile produces and every
\* reachable state of run, each unchecked access lies within the vector it
\* indexes: the slot of Load and of Store, the callee slot and the arguments
\* of Call and Tailcall, both regions of the swap of Tailcall, the template
\* slice locals[a - 1 ..], and the saved frame and the stack slot read for
\* every outer when a closure is made.
C34_MemorySafety ==
  LET len == Len(vm.stack)
      ret == vm.callframe.ret
      a == NextOp.a
  IN  /\ About("Load") => Within(ret + a, 1, len)
      /\ About("Store") => (len > 0 /\ Within(ret + a, 1, len - 1))
      /\ About("Call") =>
           /\ Within(len - a, 1, len)
           /\ At(vm.stack, len - a).tag = "Func" => Within(a - 1, 0, Len(At(vm.stack, len - a).locals))
      /\ About("Tailcall") =>
           /\ Within(len - a, 1, len)
           /\ At(vm.stack, len - a).tag = "Func" =>
                /\ Within(ret, a - 1, len)
                /\ Within(ret + (len - a) + 1, a - 1, len)
                /\ Within(a - 1, 0, Len(At(vm.stack, len - a).locals))
      /\ (About("Closure") /\ len > 0 /\ Last(vm.stack).tag = "Closure") =>
           \A i \in 1..Len(Last(vm.stack).outers) :
             LET outer == Last(vm.stack).outers[i]
             IN  /\ outer.level > 0 => Within(outer.level - 1, 1, Len(vm.calls))
                 /\ OuterInBounds(outer, vm.calls, vm.stack)
                 /\ outer.dest < Last(vm.stack).chunk.scope_size

\* the VM is about to execute the Return that ends the top-level chunk
AboutFinalReturn ==
  /\ About("Return")
  /\ vm.calls = <<>>
  /\ vm.callframe.ops = Compiler_chunk(comp).ops
  /\ vm.callframe.pc = Len(vm.callframe.ops) - 1

\* C35: stack balance.  The ops compiled for an expression, executed without
\* error, leave the stack exactly one element longer than they found it, the
\* element being the value of the expression; so at the final Return of a
\* top-level chunk the stack holds the scope_size slots of the locals and
\* exactly one result.  (The forms are those of the kinds the property names:
\* the quasiquote forms are left out.)
C35_StackBalance ==
  (AboutFinalReturn /\ src \notin QuasiForms)
    => Len(vm.stack) = Compiler_chunk(comp).scope_size + 1

\* the step of compile from comp to comp' ends a let
LetEnds ==
  /\ phase = "compile"
  /\ comp.st = "run"
  /\ comp.forms # <<>>
  /\ Last(comp.forms).f = "Let"
  /\ comp'.st = "run"

\* the chunks of the functions among the constants of the chunk
FnChunks(chunk) ==
  {chunk.consts[i].chunk : i \in {j \in 1..Len(chunk.consts) : chunk.consts[j].tag \in {"Func", "Closure"}}}

\* C36: let scoping in the compiler.  When a let form finishes compiling,
\* exactly the symbols it bound leave the scope, not the outers captured
\* while its bindings or body were compiled: after the let a let-bound name
\* no longer resolves to the let's slot, and a captured outer still has the
\* slot it was given.
C36_LetScoping ==
  /\ [](/\ (CompiledOk /\ src = LetLeak) =>
              \A c \in FnChunks(Compiler_chunk(comp)) :
                c.ops[Len(c.ops) - 1] = Op1("LookUp", S("y").id)
        /\ (CompiledOk /\ src = LocalTwice) =>
              \A i \in 1..Len(Compiler_chunk(comp).consts) :
                Compiler_chunk(comp).consts[i].tag = "Closure" =>
                  Len(Compiler_chunk(comp).consts[i].outers) = 1)
  /\ [][LetEnds =>
          LET before == Last(comp.scopes).locals
              after == Last(comp'.scopes).locals
          IN  /\ Len(after) = Len(before) - Last(comp.forms).n
              /\ \A i \in 1..Len(Last(comp.outers)) :
                   /\ Last(comp.outers)[i].dest < Len(after)
                   /\ At(after, Last(comp.outers)[i].dest) = At(before, Last(comp.outers)[i].dest)]_vars

(***************************************************************************)
(* The order of the tokens                                                 *)
(***************************************************************************)

\* the characters of the source a token stands for
TokenChars(tok) ==
  CASE tok.t = "Atom" -> tok.s
    [] tok.t = "ListStart" -> <<"(">>
    [] tok.t = "ListEnd" -> <<")">>
    [] tok.t = "Deref" -> <<"@">>
    [] OTHER -> <<>>

RECURSIVE TokensChars(_)
TokensChars(tokens) ==
  IF tokens = <<>> THEN <<>> ELSE TokenChars(Head(tokens)) \o TokensChars(Tail(tokens))

\* the text sent has atom characters, parentheses and @ only
PlainText == \A i \in 1..Len(sent) : sent[i] \in {"n", "(", ")", "@"}

\* C37: token order.  The tokenizer emits the tokens in source order: every
\* delimiter that follows the characters of a pending atom commits the atom
\* before its own token, so a reader-macro token is never queued ahead of an
\* atom that precedes it in the source and the atom characters on its two
\* sides are never merged into one atom.
C37_TokenOrder ==
  (rphase = "read" /\ whole.out = <<>> /\ PlainText) =>
    /\ TokensChars(whole.rd.tokens) = sent
    /\ \A k \in 1..Len(whole.rd.tokens) :
         whole.rd.tokens[k].t = "Atom" =>
           \A i \in 1..Len(whole.rd.tokens[k].s) : whole.rd.tokens[k].s[i] = "n"

(***************************************************************************)
(* The locks of the hub                                                    *)
(***************************************************************************)

\* session b holds the lock
Holds(b, lock) == locks[lock].w = b \/ b \in locks[lock].r

\* session b waits for the lock
WaitsFor(b, lock) == Busy(b) /\ LockStep(b).act = "acq" /\ LockStep(b).lock = lock

LockNames == {"symbols", "shared_globals"}

\* the lock order, and that only a session inside a call holds a lock
LockOrder ==
  \A b \in LockConns :
    /\ WaitsFor(b, "symbols") => ~Holds(b, "shared_globals")
    /\ \A lock \in LockNames : Holds(b, lock) => Busy(b)
    /\ \A lock \in LockNames : ~(WaitsFor(b, lock) /\ Holds(b, lock))

\* every lock acquired is released
AllReleased == \A b \in LockConns : \A lock \in LockNames : Holds(b, lock) ~> ~Holds(b, lock)

\* two sessions hold the lock for reading at once
ReadersOverlap(lock) == Cardinality(locks[lock].r) > 1

ScopeEnds == sbst = "ok" /\ marks # <<>> /\ Len(sandbox'.stack) < Len(sandbox.stack)

\* C39: SandboxEnv scope restore.  After push, any sets and nested balanced
\* push/pop pairs, and the matching pop, get answers for every symbol what it
\* answered just before the push: a symbol bound before, as a local of an
\* enclosing scope or as a global, has its value back, and a symbol first
\* bound inside is unbound again.
C39_ScopeRestore ==
  [][ScopeEnds => \A k \in TKeys : SandboxEnv_get(sandbox', k) = SandboxEnv_get([sandbox EXCEPT !.scope = Last(marks)], k)]_vars

(***************************************************************************)
(* The scopes of the Evaluator                                             *)
(***************************************************************************)

\* C40: scope balance of the tree-walking Evaluator.  When eval returns, with
\* Ok or with Err, the environment's stack of scopes has the depth it had
\* when eval was called: every push made for a call or a let is matched by
\* one pop, on the error path as well.
C40_ScopeBalance == ev.st \in {"ok", "err"} => Len(sandbox.stack) = ev.depth0
====
